---- MODULE Spec2Model ----
(***************************************************************************)
(* A model of the particles-2d engine (src/index.ts): ParticleSystem,      *)
(* Particle, Emitter, Attractor, ForceField, Sink and Collider.            *)
(*                                                                         *)
(* Numbers.  A JavaScript number is modelled as an exact rational <<n, d>> *)
(* in lowest terms with d > 0; <<0, 0>> is NaN and <<1, 0>>, <<-1, 0>> are *)
(* +Infinity and -Infinity.  Rounding of doubles is not modelled.          *)
(* Angles are measured in quarter turns (1 = pi/2 rad).                    *)
(***************************************************************************)
EXTENDS Integers, Sequences, FiniteSets, TLC

VARIABLES
    particles,      \* system.particles: ids of Particle objects, in order
    emitters,       \* system.emitters: ids of Emitter objects, in order
    attractors,     \* system.attractors: Attractor objects
    forceFields,    \* system.forceFields: ForceField objects
    colliders,      \* system.colliders: Collider objects
    sinks,          \* system.sinks: Sink objects
    objP,           \* every Particle object created so far (id = index)
    objE,           \* every Emitter object created so far (id = index)
    elapsed,        \* number of ParticleSystem.update calls made
    lastDt,         \* the dt of the last ParticleSystem.update call
    probe           \* the last direct method call and what it returned

vars == <<particles, emitters, attractors, forceFields, colliders, sinks,
          objP, objE, elapsed, lastDt, probe>>

-----------------------------------------------------------------------------
(* Numbers *)

Abs(n) == IF n < 0 THEN -n ELSE n

Sgn(n) == IF n < 0 THEN -1 ELSE IF n > 0 THEN 1 ELSE 0

RECURSIVE GCD(_, _)
GCD(a, b) == IF b = 0 THEN a ELSE GCD(b, a % b)

Frac(n, d) ==
    IF d = 0 THEN <<Sgn(n), 0>>
    ELSE LET g == GCD(Abs(n), Abs(d))
         IN  <<(Sgn(d) * n) \div g, Abs(d) \div g>>

R(n) == <<n, 1>>

NaN == <<0, 0>>

IsNaN(a) == a = NaN

IsFinite(a) == a[2] # 0

\* (Common factors are cancelled before multiplying, to keep the
\* intermediate integers small.)
RAdd(a, b) ==
    IF a[2] = 0 /\ b[2] = 0
    THEN (IF a = b THEN a ELSE NaN)
    ELSE IF a[2] = 0 THEN a
    ELSE IF b[2] = 0 THEN b
    ELSE LET g == GCD(a[2], b[2])
         IN  Frac(a[1] * (b[2] \div g) + b[1] * (a[2] \div g),
                  (a[2] \div g) * b[2])

RNeg(a) == <<-a[1], a[2]>>

RSub(a, b) == RAdd(a, RNeg(b))

RMul(a, b) ==
    IF a[2] = 0 \/ b[2] = 0 THEN <<Sgn(a[1]) * Sgn(b[1]), 0>>
    ELSE LET g == GCD(Abs(a[1]), b[2])
             h == GCD(Abs(b[1]), a[2])
         IN  Frac((a[1] \div g) * (b[1] \div h),
                  (a[2] \div h) * (b[2] \div g))

RDiv(a, b) ==
    IF b[1] = 0 THEN (IF b[2] = 0 THEN NaN ELSE Frac(a[1], 0))
    ELSE Frac(a[1] * b[2] * Sgn(b[1]), a[2] * Abs(b[1]))

\* Comparisons are false whenever an operand is NaN, as in JavaScript.
RLt(a, b) ==
    /\ ~IsNaN(a)
    /\ ~IsNaN(b)
    /\ IF a[2] = 0 /\ b[2] = 0 THEN a[1] < b[1]
       ELSE a[1] * b[2] < b[1] * a[2]

RGt(a, b) == RLt(b, a)

RLe(a, b) == ~IsNaN(a) /\ ~IsNaN(b) /\ ~RLt(b, a)

RGe(a, b) == RLe(b, a)

\* Math.max: NaN if either argument is NaN
RMax(a, b) ==
    IF IsNaN(a) \/ IsNaN(b) THEN NaN ELSE IF RLt(a, b) THEN b ELSE a

\* Math.floor and Math.ceil, as integers (finite arguments)
RFloor(a) == a[1] \div a[2]

RCeil(a) == -((-a[1]) \div a[2])

\* Math.pow(a, k) for a natural exponent k
RECURSIVE RPow(_, _)
RPow(a, k) == IF k = 0 THEN R(1) ELSE RMul(a, RPow(a, k - 1))

ISqrt(k) == CHOOSE r \in 0..k : r * r = k

\* Math.sqrt, defined where the root is rational
RSqrt(a) == <<ISqrt(a[1]), ISqrt(a[2])>>

-----------------------------------------------------------------------------
(* vec2 *)

Vec(x, y) == [x |-> x, y |-> y]

V(x, y) == Vec(R(x), R(y))

VAdd(a, b) == Vec(RAdd(a.x, b.x), RAdd(a.y, b.y))

VSub(a, b) == Vec(RSub(a.x, b.x), RSub(a.y, b.y))

VScale(a, s) == Vec(RMul(a.x, s), RMul(a.y, s))

VDot(a, b) == RAdd(RMul(a.x, b.x), RMul(a.y, b.y))

RAbs(a) == <<Abs(a[1]), a[2]>>

\* vec2.len = sqrt(x * x + y * y); on an axis this is |x| or |y|
VLen(a) ==
    IF IsNaN(a.x) \/ IsNaN(a.y) THEN NaN
    ELSE IF a.y = R(0) THEN RAbs(a.x)
    ELSE IF a.x = R(0) THEN RAbs(a.y)
    ELSE RSqrt(VDot(a, a))

\* vec2.nor: the zero vector normalises to the zero vector
VNor(a) ==
    LET len == VLen(a)
    IN  IF IsNaN(len) \/ len = R(0) THEN
            (IF IsNaN(len) THEN Vec(NaN, NaN) ELSE V(0, 0))
        ELSE Vec(RDiv(a.x, len), RDiv(a.y, len))

\* vec2.rot by q quarter turns (counter-clockwise)
VRot(a, q) ==
    LET k == q % 4
    IN  IF k = 0 THEN a
        ELSE IF k = 1 THEN Vec(RNeg(a.y), a.x)
        ELSE IF k = 2 THEN Vec(RNeg(a.x), RNeg(a.y))
        ELSE Vec(a.y, RNeg(a.x))

\* vec2.rad = Math.atan2(y, x), defined for axis-aligned vectors
VRad(a) ==
    IF a.y = R(0) THEN (IF RLt(a.x, R(0)) THEN R(2) ELSE R(0))
    ELSE IF a.x = R(0) THEN (IF RLt(a.y, R(0)) THEN R(-1) ELSE R(1))
    ELSE CHOOSE q \in {} : TRUE

\* distance(a, b) of intersection-helpers
Distance(a, b) == VLen(VSub(a, b))

-----------------------------------------------------------------------------
(* Optional values: {} is null / undefined, {v} is the value v *)

Null == {}

Some(v) == {v}

The(o) == CHOOSE v \in o : TRUE

-----------------------------------------------------------------------------
(* Use settings: boolean | string | string[] *)

UseBool(b) == [t |-> "boolean", b |-> b, id |-> "", ids |-> {}]

UseId(s) == [t |-> "string", b |-> FALSE, id |-> s, ids |-> {}]

UseIds(S) == [t |-> "array", b |-> FALSE, id |-> "", ids |-> S]

IsFalse(u) == u.t = "boolean" /\ ~u.b

\* Mutant: an element without an id matches every id string
shouldUseElement_NoIdMatches(useSetting, elementId) ==
    IF useSetting.t = "boolean" THEN useSetting.b
    ELSE IF useSetting.t = "string"
         THEN elementId = Null \/ elementId = Some(useSetting.id)
    ELSE IF useSetting.t = "array"
         THEN elementId # Null /\ elementId \subseteq useSetting.ids
    ELSE FALSE

\* elementId is Null (undefined) or Some(id)
shouldUseElement(useSetting, elementId) ==
    IF useSetting.t = "boolean" THEN useSetting.b
    ELSE IF useSetting.t = "string" THEN elementId = Some(useSetting.id)
    ELSE IF useSetting.t = "array"
         THEN elementId # Null /\ elementId \subseteq useSetting.ids
    ELSE FALSE

-----------------------------------------------------------------------------
(* Particles *)

PARTICLE_DEFAULT_UPDATE_TYPES == {"age", "physics", "direction", "position"}

MINIMUM_TRAIL_MOVEMENT_THRESHOLD == 5

\* defaultUpdates: 'all' | 'none' | an array of names
UpdatesAll == [kind |-> "all", list |-> {}]

UpdatesNone == [kind |-> "none", list |-> {}]

UpdatesList(S) == [kind |-> "array", list |-> S]

DEFAULT_PARTICLE_OPTIONS ==
    [useAttractors |-> UseBool(TRUE),
     useForceFields |-> UseBool(TRUE),
     useColliders |-> UseBool(TRUE),
     useSinks |-> UseBool(TRUE),
     maxSpeed |-> R(-1),
     defaultUpdates |-> UpdatesAll,
     update |-> "none"]

\* style: only the trail configuration takes part in update
DEFAULT_PARTICLE_STYLE == [style |-> "dot", trail |-> Null]

prepareDefaultUpdates(defaultUpdates) ==
    IF defaultUpdates.kind # "array"
    THEN (IF defaultUpdates.kind = "all" THEN PARTICLE_DEFAULT_UPDATE_TYPES
          ELSE {})
    ELSE defaultUpdates.list \cap PARTICLE_DEFAULT_UPDATE_TYPES

Ev(name, i) == [ev |-> name, i |-> i]

\* new Particle(position, velocity, rotation, lifespan, style, options).
\* trace lists what the last update call did to the particle and origin is
\* the id of the emitter that created it (0: the host); the code has neither.
NewParticle(position, velocity, rotation, lifespan, style, options) ==
    [position |-> position,
     velocity |-> velocity,
     rotation |-> rotation,
     lifespan |-> lifespan,
     age |-> R(0),
     actualRotation |-> R(0),
     disposed |-> FALSE,
     style |-> style,
     options |-> options,
     trailSegments |->
        IF style # Null /\ The(style).trail # Null
        THEN <<[position |-> position, age |-> R(0), speed |-> VLen(velocity)]>>
        ELSE << >>,
     origin |-> 0,
     trace |-> << >>]

Log(p, name, i) == [p EXCEPT !.trace = Append(@, Ev(name, i))]

-----------------------------------------------------------------------------
(* Attractors *)

NewAttractor(position, range, force, falloff, lifespan, id) ==
    [position |-> position, range |-> range, force |-> force,
     falloff |-> falloff, lifespan |-> lifespan, id |-> id,
     age |-> R(0), disposed |-> FALSE]

\* The strength Attractor.applyForce and Sink.affect (fade) give at distance
\* d: amount * 1 / pow(max(d, 1), falloff) * max(0, 1 - (d / range)^2)
FalloffStrength(amount, d, range, falloff) ==
    LET safeDistance == RMax(d, R(1))
        distanceFactor == RDiv(R(1), RPow(safeDistance, falloff))
        rangeFactor == RDiv(d, range)
        rangeFalloff == RMax(R(0), RSub(R(1), RMul(rangeFactor, rangeFactor)))
    IN  RMul(RMul(amount, distanceFactor), rangeFalloff)

AttractorForce(a, p) ==
    LET d == Distance(a.position, p.position)
        direction == VSub(a.position, p.position)
        normalizedDirection == VNor(direction)
        finalForceStrength == FalloffStrength(a.force, d, a.range, a.falloff)
    IN  VScale(normalizedDirection, finalForceStrength)

AttractorApplyForce(a, p, dt) ==
    LET d == Distance(a.position, p.position)
    IN  IF RGt(d, a.range) THEN p
        ELSE [p EXCEPT !.velocity =
                    VAdd(@, VScale(AttractorForce(a, p), dt))]

\* Attractor.update, ForceField.update and Sink.update are the same code
FieldUpdate(f, dt) ==
    LET age == RAdd(f.age, dt)
    IN  [f EXCEPT !.age = age,
                  !.disposed = @ \/ (f.lifespan # R(-1) /\ RGe(age, f.lifespan))]

-----------------------------------------------------------------------------
(* Force fields *)

NewForceField(force, lifespan, customForce, coefficient, id) ==
    [force |-> force, lifespan |-> lifespan, customForce |-> customForce,
     coefficient |-> coefficient, id |-> id,
     age |-> R(0), disposed |-> FALSE]

\* ForceFieldForces.drag
Drag(p, forceField, dt) ==
    LET dragForce == VScale(p.velocity, RNeg(forceField.coefficient))
    IN  [p EXCEPT !.velocity = VAdd(@, VScale(dragForce, dt))]

\* customForce is Null or Some("drag")
ForceFieldApplyForce(f, p, dt) ==
    IF f.customForce # Null
    THEN (IF The(f.customForce) = "drag" THEN Drag(p, f, dt) ELSE p)
    ELSE [p EXCEPT !.velocity = VAdd(@, VScale(f.force, dt))]

-----------------------------------------------------------------------------
(* Sinks *)

NewSink(position, range, strength, falloff, mode, lifespan, id) ==
    [position |-> position, range |-> range, strength |-> strength,
     falloff |-> falloff, mode |-> mode, lifespan |-> lifespan, id |-> id,
     age |-> R(0), disposed |-> FALSE]

SinkAgingMultiplier(s, p) ==
    FalloffStrength(s.strength, Distance(s.position, p.position),
                    s.range, s.falloff)

\* Mutant: a particle exactly at the range is out of range
SinkAffect_RangeExclusive(s, p, dt) ==
    LET d == Distance(s.position, p.position)
    IN  IF RGe(d, s.range) THEN p
        ELSE IF s.mode = "instant" THEN [p EXCEPT !.age = p.lifespan]
        ELSE [p EXCEPT !.age = RAdd(@, RMul(SinkAgingMultiplier(s, p), dt))]

SinkAffect(s, p, dt) ==
    LET d == Distance(s.position, p.position)
    IN  IF RGt(d, s.range) THEN p
        ELSE IF s.mode = "instant" THEN [p EXCEPT !.age = p.lifespan]
        ELSE [p EXCEPT !.age = RAdd(@, RMul(SinkAgingMultiplier(s, p), dt))]

-----------------------------------------------------------------------------
(* Colliders *)

NewCollider(geometry, restitution, friction, randomness, id) ==
    [geometry |-> geometry, restitution |-> restitution,
     friction |-> friction, randomness |-> randomness, id |-> id]

Circle(position, radius) ==
    [type |-> "circle", position |-> position, radius |-> radius]

\* Broad and narrow phase for a circle: the point is in contact when it is
\* within the radius; the normal points from the centre to the point.
ColliderContact(geometry, position) ==
    LET toPoint == VSub(position, geometry.position)
        intersects == RLe(VLen(toPoint), geometry.radius)
    IN  [intersects |-> intersects,
         normal |-> IF intersects THEN Some(VNor(toPoint)) ELSE Null]

\* The angles randomBetween(-PI * randomness, PI * randomness) can return,
\* among the whole quarter turns
RandomAngles(randomness) ==
    {q \in -2..2 : /\ RLe(RMul(R(-2), randomness), R(q))
                   /\ RLt(R(q), RMul(R(2), randomness))}

\* Mutant: the impulse is scaled by restitution instead of 1 + restitution
CollisionResponse_NoBounceBase(c, velocity, normalOpt, angle) ==
    LET normal == IF normalOpt = Null THEN V(0, 0) ELSE The(normalOpt)
        velocityAlongNormal == VDot(velocity, normal)
        impulse == VScale(normal,
                          RMul(RNeg(c.restitution), velocityAlongNormal))
        v1 == VAdd(velocity, impulse)
        v2 == IF RGt(c.randomness, R(0)) THEN VRot(v1, angle) ELSE v1
        frictionImpulse ==
            VScale(VSub(velocity, VScale(normal, velocityAlongNormal)),
                   RNeg(c.friction))
    IN  IF RGt(velocityAlongNormal, R(0)) THEN velocity
        ELSE VAdd(v2, frictionImpulse)

\* Mutant: a velocity that points away from the surface is not left alone
CollisionResponse_NoReject(c, velocity, normalOpt, angle) ==
    LET normal == IF normalOpt = Null THEN V(0, 0) ELSE The(normalOpt)
        velocityAlongNormal == VDot(velocity, normal)
        impulse == VScale(normal,
                          RMul(RNeg(RAdd(R(1), c.restitution)),
                               velocityAlongNormal))
        v1 == VAdd(velocity, impulse)
        v2 == IF RGt(c.randomness, R(0)) THEN VRot(v1, angle) ELSE v1
        frictionImpulse ==
            VScale(VSub(velocity, VScale(normal, velocityAlongNormal)),
                   RNeg(c.friction))
    IN  VAdd(v2, frictionImpulse)

\* The response of handleCollision to a contact with the given normal
\* (Null when the narrow phase gives none); angle is the random angle drawn
CollisionResponse(c, velocity, normalOpt, angle) ==
    LET normal == IF normalOpt = Null THEN V(0, 0) ELSE The(normalOpt)
        relativeVelocity == VSub(velocity, V(0, 0))
        velocityAlongNormal == VDot(relativeVelocity, normal)
        impulseMagnitude ==
            RMul(RNeg(RAdd(R(1), c.restitution)), velocityAlongNormal)
        impulse == VScale(normal, impulseMagnitude)
        v1 == VAdd(velocity, impulse)
        v2 == IF RGt(c.randomness, R(0)) THEN VRot(v1, angle) ELSE v1
        frictionImpulse ==
            VScale(VSub(relativeVelocity, VScale(normal, velocityAlongNormal)),
                   RNeg(c.friction))
    IN  IF RGt(velocityAlongNormal, R(0)) THEN velocity
        ELSE VAdd(v2, frictionImpulse)

HandleCollision(c, p, angle) ==
    LET contact == ColliderContact(c.geometry, p.position)
    IN  IF ~contact.intersects THEN p
        ELSE [p EXCEPT !.velocity =
                    CollisionResponse(c, @, contact.normal, angle)]

-----------------------------------------------------------------------------
(* Particle.update *)

\* The system as Particle.update reads it
Sys(as, fs, ss, cs) ==
    [attractors |-> as, forceFields |-> fs, sinks |-> ss, colliders |-> cs]

\* Mutant: a particle is disposed only when its age exceeds its lifespan
Aged_Strict(p, age) ==
    [Log(p, "age", 0) EXCEPT !.age = age,
                             !.disposed = @ \/ RGt(age, p.lifespan)]

Aged(p, age) ==
    [Log(p, "age", 0) EXCEPT !.age = age,
                             !.disposed = @ \/ RGe(age, p.lifespan)]

AgePhase(p, defaultUpdates, dt) ==
    IF "age" \in defaultUpdates THEN Aged(p, RAdd(p.age, dt)) ELSE p

RECURSIVE ApplyAttractors(_, _, _, _)
ApplyAttractors(p, as, i, dt) ==
    IF i > Len(as) THEN p
    ELSE ApplyAttractors(
            IF ~as[i].disposed
               /\ shouldUseElement(p.options.useAttractors, as[i].id)
            THEN AttractorApplyForce(as[i], Log(p, "attractor", i), dt)
            ELSE p,
            as, i + 1, dt)

RECURSIVE ApplyForceFields(_, _, _, _)
ApplyForceFields(p, fs, i, dt) ==
    IF i > Len(fs) THEN p
    ELSE ApplyForceFields(
            IF ~fs[i].disposed
               /\ shouldUseElement(p.options.useForceFields, fs[i].id)
            THEN ForceFieldApplyForce(fs[i], Log(p, "forceField", i), dt)
            ELSE p,
            fs, i + 1, dt)

RECURSIVE ApplySinks(_, _, _, _)
ApplySinks(p, ss, i, dt) ==
    IF i > Len(ss) THEN p
    ELSE ApplySinks(
            IF ~ss[i].disposed
               /\ shouldUseElement(p.options.useSinks, ss[i].id)
            THEN SinkAffect(ss[i], Log(p, "sink", i), dt)
            ELSE p,
            ss, i + 1, dt)

RECURSIVE ApplyColliders(_, _, _, _)
ApplyColliders(p, cs, i, angle) ==
    IF i > Len(cs) THEN p
    ELSE ApplyColliders(
            IF shouldUseElement(p.options.useColliders, cs[i].id)
            THEN HandleCollision(cs[i], Log(p, "collider", i), angle)
            ELSE p,
            cs, i + 1, angle)

AttractorsPhase(p, sys, dt) ==
    IF ~IsFalse(p.options.useAttractors)
    THEN ApplyAttractors(p, sys.attractors, 1, dt) ELSE p

ForceFieldsPhase(p, sys, dt) ==
    IF ~IsFalse(p.options.useForceFields)
    THEN ApplyForceFields(p, sys.forceFields, 1, dt) ELSE p

SinksPhase(p, sys, dt) ==
    IF ~IsFalse(p.options.useSinks)
    THEN ApplySinks(p, sys.sinks, 1, dt) ELSE p

CollidersPhase(p, sys, angle) ==
    IF ~IsFalse(p.options.useColliders)
    THEN ApplyColliders(p, sys.colliders, 1, angle) ELSE p

CapSpeed(p) ==
    IF RGt(p.options.maxSpeed, R(0))
    THEN LET speed == VLen(p.velocity)
         IN  IF RGt(speed, p.options.maxSpeed)
             THEN [p EXCEPT !.velocity =
                        VScale(VNor(p.velocity), p.options.maxSpeed)]
             ELSE p
    ELSE p

PhysicsPhase(p, defaultUpdates, sys, dt, angle) ==
    IF "physics" \in defaultUpdates
    THEN CapSpeed(
            CollidersPhase(
                SinksPhase(
                    ForceFieldsPhase(AttractorsPhase(p, sys, dt), sys, dt),
                    sys, dt),
                sys, angle))
    ELSE p

\* options.update: "none" when no hook is given; the hook "mark" changes
\* nothing of the particle, the hook "reverse" negates its velocity
CustomUpdate(p, dt) ==
    IF p.options.update = "none" THEN p
    ELSE IF p.options.update = "reverse"
    THEN [Log(p, "update", 0) EXCEPT !.velocity = VScale(@, R(-1))]
    ELSE Log(p, "update", 0)

\* Mutant: the heading is taken whatever rotation and defaultUpdates are
DirectionPhase_Always(p, defaultUpdates) ==
    [Log(p, "direction", 0) EXCEPT !.actualRotation = VRad(p.velocity)]

DirectionPhase(p, defaultUpdates) ==
    IF "direction" \in defaultUpdates /\ p.rotation = Null
    THEN [Log(p, "direction", 0) EXCEPT !.actualRotation = VRad(p.velocity)]
    ELSE [p EXCEPT !.actualRotation =
                IF p.rotation = Null THEN R(0) ELSE The(p.rotation)]

PositionPhase(p, defaultUpdates, dt) ==
    IF "position" \in defaultUpdates
    THEN [Log(p, "position", 0) EXCEPT
            !.position = VAdd(@, VScale(p.velocity, dt))]
    ELSE p

\* Mutant: the oldest sample is not discarded when the trail is full
UpdateTrail_NoShift(p, defaultUpdates, dt) ==
    LET trail == The(The(p.style).trail)
        decayTime == IF trail.decayTime = Null THEN <<1, 2>>
                     ELSE The(trail.decayTime)
        aged == [i \in DOMAIN p.trailSegments |->
                    [p.trailSegments[i] EXCEPT !.age = RAdd(@, dt)]]
        Young(segment) == RLt(segment.age, decayTime)
        kept == SelectSeq(aged, Young)
        moved == \/ kept = << >>
                 \/ RGe(Distance(kept[Len(kept)].position, p.position),
                        R(MINIMUM_TRAIL_MOVEMENT_THRESHOLD))
        segment == [position |-> p.position, age |-> R(0),
                    speed |-> VLen(p.velocity)]
    IN  IF "position" \in defaultUpdates /\ moved
        THEN [p EXCEPT !.trailSegments = Append(kept, segment)]
        ELSE [p EXCEPT !.trailSegments = kept]

UpdateTrail(p, defaultUpdates, dt) ==
    LET trail == The(The(p.style).trail)
        decayTime == IF trail.decayTime = Null THEN <<1, 2>>
                     ELSE The(trail.decayTime)
        aged == [i \in DOMAIN p.trailSegments |->
                    [p.trailSegments[i] EXCEPT !.age = RAdd(@, dt)]]
        Young(segment) == RLt(segment.age, decayTime)
        kept == SelectSeq(aged, Young)
        moved == \/ kept = << >>
                 \/ RGe(Distance(kept[Len(kept)].position, p.position),
                        R(MINIMUM_TRAIL_MOVEMENT_THRESHOLD))
        shifted == IF RGe(R(Len(kept)), trail.length) /\ kept # << >>
                   THEN Tail(kept) ELSE kept
        segment == [position |-> p.position, age |-> R(0),
                    speed |-> VLen(p.velocity)]
    IN  IF "position" \in defaultUpdates /\ moved
        THEN [p EXCEPT !.trailSegments = Append(shifted, segment)]
        ELSE [p EXCEPT !.trailSegments = kept]

TrailPhase(p, defaultUpdates, dt) ==
    IF p.style # Null /\ The(p.style).trail # Null
    THEN UpdateTrail(p, defaultUpdates, dt)
    ELSE p

\* Mutant: the custom hook is called after the position phase
Phases_HookLast(p, defaultUpdates, sys, dt, angle) ==
    TrailPhase(
        CustomUpdate(
            PositionPhase(
                DirectionPhase(
                    PhysicsPhase(AgePhase(p, defaultUpdates, dt),
                                 defaultUpdates, sys, dt, angle),
                    defaultUpdates),
                defaultUpdates, dt),
            dt),
        defaultUpdates, dt)

\* The phases of Particle.update, in the order of the code
Phases(p, defaultUpdates, sys, dt, angle) ==
    TrailPhase(
        PositionPhase(
            DirectionPhase(
                CustomUpdate(
                    PhysicsPhase(AgePhase(p, defaultUpdates, dt),
                                 defaultUpdates, sys, dt, angle),
                    dt),
                defaultUpdates),
            defaultUpdates, dt),
        defaultUpdates, dt)

ParticleUpdate(p0, sys, dt, angle) ==
    Phases([p0 EXCEPT !.trace = << >>],
           prepareDefaultUpdates(p0.options.defaultUpdates), sys, dt, angle)

-----------------------------------------------------------------------------
(* Random numbers.  One ParticleSystem.update call draws its random     *)
(* numbers from an oracle [u |-> 0..RandMax, angle |-> quarter turns]: *)
(* Math.random() returns u / (RandMax + 1).                             *)

RandMax == 1

MathRandom(rnd) == Frac(rnd.u, RandMax + 1)

randomBetween(min, max, rnd) ==
    RAdd(RMul(MathRandom(rnd), RSub(max, min)), min)

randomIntBetween(min, max, rnd) ==
    RAdd(R(RFloor(RMul(MathRandom(rnd), RAdd(RSub(max, min), R(1))))), min)

\* Parameter shapes: a fixed value, a random range, or a function of n
\* (the functions modelled are n |-> v + k * n)
Fixed(v) == [shape |-> "fixed", v |-> v, min |-> v, max |-> v, k |-> R(0)]

Range(min, max) ==
    [shape |-> "range", v |-> min, min |-> min, max |-> max, k |-> R(0)]

Function(v, k) == [shape |-> "function", v |-> v, min |-> v, max |-> v, k |-> k]

isRandomRange(value) == value.shape = "range"

calculateRandomRange(range, integer, rnd) ==
    IF integer THEN randomIntBetween(range.min, range.max, rnd)
    ELSE randomBetween(range.min, range.max, rnd)

-----------------------------------------------------------------------------
(* Emitters *)

RANDOM_RATE_CHANGE_INTERVAL == 1

RateEmission(rate) ==
    [type |-> "rate", rate |-> rate, n |-> Fixed(R(0)), delay |-> Null,
     f |-> R(0)]

BurstEmission(n, delay) ==
    [type |-> "burst", rate |-> Fixed(R(0)), n |-> n, delay |-> delay,
     f |-> R(0)]

\* f is the number the custom function returns
CustomEmission(f) ==
    [type |-> "custom", rate |-> Fixed(R(0)), n |-> Fixed(R(0)),
     delay |-> Null, f |-> f]

\* options.particles; position is "uniform", "normal" or "function" (the
\* function modelled is n |-> (n, n)); direction is in quarter turns
ParticleTemplate(position, speed, direction, lifespan, style, options) ==
    [position |-> position, speed |-> speed, direction |-> direction,
     rotation |-> Null, lifespan |-> lifespan, style |-> style,
     options |-> options]

DEFAULT_PARTICLE_TEMPLATE ==
    ParticleTemplate("uniform", Fixed(R(0)), Fixed(R(0)), Fixed(R(1)),
                     Some(DEFAULT_PARTICLE_STYLE), DEFAULT_PARTICLE_OPTIONS)

NewEmitter(position, size, lifespan, template, emission) ==
    [position |-> position, size |-> size, lifespan |-> lifespan,
     options |-> [particles |-> template, emission |-> emission],
     age |-> R(0), totalParticlesEmitted |-> R(0), disposed |-> FALSE,
     currentRate |-> R(0), lastRateChange |-> R(0),
     particlesToEmit |-> R(0)]

vectorAlmostZero(v) == v.x = R(0) /\ v.y = R(0)

Resolve(param, n, integer, rnd) ==
    IF param.shape = "function" THEN RAdd(param.v, RMul(param.k, R(n)))
    ELSE IF isRandomRange(param) THEN calculateRandomRange(param, integer, rnd)
    ELSE param.v

Half(a) == RDiv(a, R(2))

\* vec2.rot(v, angle), defined for whole quarter turns
Rotate(v, angle) ==
    IF angle[2] = 1 THEN VRot(v, angle[1]) ELSE CHOOSE w \in {} : TRUE

createParticle(e, n, rnd) ==
    LET t == e.options.particles
        position ==
            IF vectorAlmostZero(e.size) THEN e.position
            ELSE IF t.position \in {"uniform", "normal"}
            THEN Vec(randomIntBetween(RSub(e.position.x, Half(e.size.x)),
                                      RAdd(e.position.x, Half(e.size.x)), rnd),
                     randomIntBetween(RSub(e.position.y, Half(e.size.y)),
                                      RAdd(e.position.y, Half(e.size.y)), rnd))
            ELSE IF t.position = "function" THEN V(n, n)
            ELSE e.position
        speed == Resolve(t.speed, n, TRUE, rnd)
        direction == Resolve(t.direction, n, FALSE, rnd)
        velocity == Rotate(Vec(speed, R(0)), direction)
        lifespan == Resolve(t.lifespan, n, FALSE, rnd)
    IN  NewParticle(position, velocity, t.rotation, lifespan, t.style,
                    t.options)

\* The particles emitParticles(system, n) pushes, in order: one for every
\* i = 0, 1, ... with i < n
emitParticles(e, n, rnd) ==
    [i \in 1..(IF RGt(n, R(0)) THEN RCeil(n) ELSE 0) |->
        createParticle(e, i - 1, rnd)]

Emitted(e, new) == [e |-> e, new |-> new]

\* Mutant: the fractional remainder is dropped after an emission
EmitRate_DropRemainder(e0, dt, rnd) ==
    LET particlesToEmit ==
            RAdd(e0.particlesToEmit, RMul(e0.options.emission.rate.v, dt))
        n == R(RFloor(particlesToEmit))
        e1 == [e0 EXCEPT !.currentRate = e0.options.emission.rate.v,
                         !.particlesToEmit = particlesToEmit]
    IN  IF RGe(particlesToEmit, R(1))
        THEN Emitted([e1 EXCEPT !.particlesToEmit = R(0),
                                !.totalParticlesEmitted = RAdd(@, n)],
                     emitParticles(e1, n, rnd))
        ELSE Emitted(e1, << >>)

EmitRate(e0, dt, rnd) ==
    LET emission == e0.options.emission
        lastRateChange == RAdd(e0.lastRateChange, dt)
        resample == \/ RLe(e0.currentRate, R(0))
                    \/ RGe(lastRateChange, R(RANDOM_RATE_CHANGE_INTERVAL))
        currentRate ==
            IF resample
            THEN (IF isRandomRange(emission.rate)
                  THEN calculateRandomRange(emission.rate, FALSE, rnd)
                  ELSE emission.rate.v)
            ELSE e0.currentRate
        particlesToEmit == RAdd(e0.particlesToEmit, RMul(currentRate, dt))
        n == R(RFloor(particlesToEmit))
        e1 == [e0 EXCEPT
                !.lastRateChange = IF resample THEN R(0) ELSE lastRateChange,
                !.currentRate = currentRate,
                !.particlesToEmit = particlesToEmit]
    IN  IF RGe(particlesToEmit, R(1))
        THEN Emitted([e1 EXCEPT
                        !.particlesToEmit = RSub(particlesToEmit, n),
                        !.totalParticlesEmitted = RAdd(@, n)],
                     emitParticles(e1, n, rnd))
        ELSE Emitted(e1, << >>)

\* Mutant: a burst emitter is not disposed after it has emitted
EmitBurst_NoDispose(e, rnd) ==
    LET emission == e.options.emission
        n == IF isRandomRange(emission.n)
             THEN calculateRandomRange(emission.n, TRUE, rnd)
             ELSE R(RCeil(emission.n.v))
    IN  IF \/ emission.delay = Null
           \/ The(emission.delay) = R(0)
           \/ RGe(e.age, The(emission.delay))
        THEN (IF RGt(n, R(0))
              THEN Emitted([e EXCEPT !.totalParticlesEmitted = RAdd(@, n)],
                           emitParticles(e, n, rnd))
              ELSE Emitted(e, << >>))
        ELSE Emitted(e, << >>)

EmitBurst(e, rnd) ==
    LET emission == e.options.emission
        n == IF isRandomRange(emission.n)
             THEN calculateRandomRange(emission.n, TRUE, rnd)
             ELSE R(RCeil(emission.n.v))
    IN  IF \/ emission.delay = Null
           \/ The(emission.delay) = R(0)
           \/ RGe(e.age, The(emission.delay))
        THEN (IF RGt(n, R(0))
              THEN Emitted([e EXCEPT !.totalParticlesEmitted = RAdd(@, n),
                                     !.disposed = TRUE],
                           emitParticles(e, n, rnd))
              ELSE Emitted(e, << >>))
        ELSE Emitted(e, << >>)

\* Mutant: the number the custom function returns is floor'd
EmitCustom_Floor(e, rnd) ==
    LET n == R(RFloor(e.options.emission.f))
    IN  IF RGt(n, R(0))
        THEN Emitted([e EXCEPT !.totalParticlesEmitted = RAdd(@, n)],
                     emitParticles(e, n, rnd))
        ELSE Emitted(e, << >>)

EmitCustom(e, rnd) ==
    LET n == R(RCeil(e.options.emission.f))
    IN  IF RGt(n, R(0))
        THEN Emitted([e EXCEPT !.totalParticlesEmitted = RAdd(@, n)],
                     emitParticles(e, n, rnd))
        ELSE Emitted(e, << >>)

\* Mutant: an emitter that has reached its lifespan still emits in that
\* update
EmitterUpdate_NoReturn(e0, dt, rnd) ==
    LET age == RAdd(e0.age, dt)
        e == [e0 EXCEPT !.age = age,
                        !.disposed = e0.lifespan # R(-1) /\ RGe(age, e0.lifespan)]
        type == e.options.emission.type
    IN  IF type = "rate" THEN EmitRate(e, dt, rnd)
        ELSE IF type = "burst" THEN EmitBurst(e, rnd)
        ELSE IF type = "custom" THEN EmitCustom(e, rnd)
        ELSE Emitted(e, << >>)

\* Mutant: the lifespan test is age > lifespan
EmitterUpdate_StrictAge(e0, dt, rnd) ==
    LET age == RAdd(e0.age, dt)
        e == [e0 EXCEPT !.age = age]
        type == e.options.emission.type
    IN  IF e.lifespan # R(-1) /\ RGt(age, e.lifespan)
        THEN Emitted([e EXCEPT !.disposed = TRUE], << >>)
        ELSE IF type = "rate" THEN EmitRate(e, dt, rnd)
        ELSE IF type = "burst" THEN EmitBurst(e, rnd)
        ELSE IF type = "custom" THEN EmitCustom(e, rnd)
        ELSE Emitted(e, << >>)

\* Emitter.update: the emitter afterwards and the particles it pushed
EmitterUpdate(e0, dt, rnd) ==
    LET age == RAdd(e0.age, dt)
        e == [e0 EXCEPT !.age = age]
        type == e.options.emission.type
    IN  IF e.lifespan # R(-1) /\ RGe(age, e.lifespan)
        THEN Emitted([e EXCEPT !.disposed = TRUE], << >>)
        ELSE IF type = "rate" THEN EmitRate(e, dt, rnd)
        ELSE IF type = "burst" THEN EmitBurst(e, rnd)
        ELSE IF type = "custom" THEN EmitCustom(e, rnd)
        ELSE Emitted(e, << >>)

-----------------------------------------------------------------------------
(* ParticleSystem *)

InSeq(x, s) == \E i \in DOMAIN s : s[i] = x

\* particles.forEach(particle => if (!particle.disposed) particle.update())
UpdateParticles(objs, ids, sys, dt, angle) ==
    [i \in DOMAIN objs |->
        IF InSeq(i, ids) /\ ~objs[i].disposed
        THEN ParticleUpdate(objs[i], sys, dt, angle)
        ELSE objs[i]]

\* Mutant: the filter keeps every element
FilterLive_KeepAll(ids, objs) == ids

\* ids.filter(id => !objs[id].disposed)
FilterLive(ids, objs) ==
    LET Live(i) == ~objs[i].disposed
    IN  SelectSeq(ids, Live)

\* emitters.forEach(emitter => if (!emitter.disposed) emitter.update()),
\* from the k-th emitter on; st holds the objects and system.particles
\* Emitter id has become r.e and pushed the particles r.new
Pushed(st, id, r) ==
    [objE |-> [st.objE EXCEPT ![id] = r.e],
     objP |-> st.objP \o
              [i \in 1..Len(r.new) |-> [r.new[i] EXCEPT !.origin = id]],
     particles |-> st.particles \o
                   [i \in 1..Len(r.new) |-> Len(st.objP) + i]]

RECURSIVE UpdateEmitters(_, _, _, _, _)
UpdateEmitters(k, ids, st, dt, rnd) ==
    IF k > Len(ids) THEN st
    ELSE IF st.objE[ids[k]].disposed
    THEN UpdateEmitters(k + 1, ids, st, dt, rnd)
    ELSE UpdateEmitters(k + 1, ids,
            Pushed(st, ids[k], EmitterUpdate(st.objE[ids[k]], dt, rnd)),
            dt, rnd)

\* fields.forEach(field => if (!field.disposed) field.update(dt))
UpdateFields(fields, dt) ==
    [i \in DOMAIN fields |->
        IF ~fields[i].disposed THEN FieldUpdate(fields[i], dt) ELSE fields[i]]

\* fields.filter(field => !field.disposed)
FilterFields(fields) ==
    LET Live(f) == ~f.disposed
    IN  SelectSeq(fields, Live)

\* Mutant: the system is not disposed while it holds attractors or sinks
ParticleSystemDisposed_NoElements ==
    /\ particles = << >> \/ \A i \in DOMAIN particles : objP[particles[i]].disposed
    /\ emitters = << >> \/ \A i \in DOMAIN emitters : objE[emitters[i]].disposed
    /\ attractors = << >>
    /\ sinks = << >>

ParticleSystemDisposed ==
    /\ particles = << >> \/ \A i \in DOMAIN particles : objP[particles[i]].disposed
    /\ emitters = << >> \/ \A i \in DOMAIN emitters : objE[emitters[i]].disposed

-----------------------------------------------------------------------------
(* Bounds *)

MaxUpdates == 4

MaxParticles == 6

\* The values of dt the host passes to update
DTs == {<<1, 3>>, <<1, 2>>, R(1)}

\* Does an update of the system draw random numbers?
DrawsRandom ==
    \/ \E k \in DOMAIN emitters :
          LET e == objE[emitters[k]]
          IN  \/ isRandomRange(e.options.emission.rate)
              \/ isRandomRange(e.options.emission.n)
              \/ ~vectorAlmostZero(e.size)
              \/ isRandomRange(e.options.particles.speed)
              \/ isRandomRange(e.options.particles.direction)
              \/ isRandomRange(e.options.particles.lifespan)
    \/ \E k \in DOMAIN colliders : RGt(colliders[k].randomness, R(0))

\* What the random draws of one update can be
Oracles ==
    IF DrawsRandom
    THEN [u : 0..RandMax,
          angle : UNION {RandomAngles(colliders[k].randomness) :
                            k \in DOMAIN colliders} \cup {0}]
    ELSE {[u |-> 0, angle |-> 0]}

NoProbe ==
    [op |-> "none", el |-> Null, p |-> Null, dt |-> R(0), q |-> Null,
     normal |-> Null, angle |-> 0]

MaxPhysicsUpdates == 2

-----------------------------------------------------------------------------
(* ParticleSystem.update(dt) *)

\* The objects and system.particles once the particles are updated and the
\* disposed ones filtered out
AfterParticles(objP1) ==
    [objE |-> objE, objP |-> objP1, particles |-> FilterLive(particles, objP1)]

\* Mutant: the emitters are updated before the particles
AfterEmitters_EmittersFirst(dt, rnd) ==
    LET st == UpdateEmitters(1, emitters,
                  [objE |-> objE, objP |-> objP, particles |-> particles],
                  dt, rnd)
        objP1 == UpdateParticles(st.objP, st.particles,
                                 Sys(attractors, forceFields, sinks, colliders),
                                 dt, rnd.angle)
    IN  [objE |-> st.objE, objP |-> objP1,
         particles |-> FilterLive(st.particles, objP1)]

\* ... and once the emitters are updated
AfterEmitters(dt, rnd) ==
    UpdateEmitters(1, emitters,
        AfterParticles(
            UpdateParticles(objP, particles,
                            Sys(attractors, forceFields, sinks, colliders),
                            dt, rnd.angle)),
        dt, rnd)

\* (cap bounds the number of particle objects ever created)
Becomes(st, cap) ==
    /\ Len(st.objP) <= cap
    /\ objP' = st.objP
    /\ particles' = st.particles
    /\ objE' = st.objE
    /\ emitters' = FilterLive(emitters, st.objE)

\* What update(dt) does to the system
ParticleSystemPass(dt, rnd, cap) ==
    /\ Becomes(AfterEmitters(dt, rnd), cap)
    /\ attractors' = FilterFields(UpdateFields(attractors, dt))
    /\ forceFields' = FilterFields(UpdateFields(forceFields, dt))
    /\ sinks' = FilterFields(UpdateFields(sinks, dt))
    /\ lastDt' = dt
    /\ UNCHANGED <<colliders, probe>>

ParticleSystemUpdate(dt, rnd, cap) ==
    /\ ParticleSystemPass(dt, rnd, cap)
    /\ elapsed' = elapsed + 1

Update(dt, rnd) ==
    /\ elapsed < MaxUpdates
    /\ ParticleSystemUpdate(dt, rnd, MaxParticles)

\* The host calls update(system, dt) on the k-th particle of
\* system.particles itself
CallParticleUpdate(k, dt, angle) ==
    /\ elapsed < MaxUpdates
    /\ k \in DOMAIN particles
    /\ objP' = [objP EXCEPT ![particles[k]] =
                    ParticleUpdate(@, Sys(attractors, forceFields, sinks,
                                          colliders), dt, angle)]
    /\ elapsed' = elapsed + 1
    /\ lastDt' = dt
    /\ UNCHANGED <<particles, emitters, attractors, forceFields, colliders,
                   sinks, objE, probe>>

\* The objects and system.particles left by a call of Emitter.update
Left(st, cap) ==
    /\ Len(st.objP) <= cap
    /\ objP' = st.objP
    /\ particles' = st.particles
    /\ objE' = st.objE

\* The host calls update(system, dt) on the k-th emitter of system.emitters
\* itself
CallEmitterUpdate(k, dt, rnd) ==
    /\ elapsed < MaxUpdates
    /\ k \in DOMAIN emitters
    /\ Left(Pushed([objE |-> objE, objP |-> objP, particles |-> particles],
                   emitters[k],
                   EmitterUpdate(objE[emitters[k]], dt, rnd)),
            MaxParticles)
    /\ elapsed' = elapsed + 1
    /\ lastDt' = dt
    /\ UNCHANGED <<emitters, attractors, forceFields, colliders, sinks, probe>>

-----------------------------------------------------------------------------
(* Spec: a system with one emitter and at most one particle the host added *)

EmitterLifespans == {R(-1), R(1), <<3, 2>>}

Emissions ==
    {RateEmission(Fixed(R(r))) : r \in {1, 3}}
    \cup {BurstEmission(n, delay) :
            n \in {Fixed(R(0)), Fixed(<<3, 2>>), Range(R(0), R(1))},
            delay \in {Null, Some(R(1))}}
    \cup {CustomEmission(f) : f \in {R(-1), <<1, 2>>}}

HostParticles ==
    {NewParticle(V(0, 0), V(1, 0), Null, R(1), Some(DEFAULT_PARTICLE_STYLE),
                 [DEFAULT_PARTICLE_OPTIONS EXCEPT !.defaultUpdates = du]) :
        du \in {UpdatesAll, UpdatesList({"position"})}}

Init ==
    /\ \E L \in EmitterLifespans, em \in Emissions :
          objE = <<NewEmitter(V(0, 0), V(0, 0), L, DEFAULT_PARTICLE_TEMPLATE, em)>>
    /\ emitters = <<1>>
    /\ \E hp \in SUBSET HostParticles :
          /\ Cardinality(hp) <= 1
          /\ objP = IF hp = {} THEN << >> ELSE <<The(hp)>>
    /\ particles = [i \in DOMAIN objP |-> i]
    /\ attractors = << >>
    /\ forceFields = << >>
    /\ colliders = << >>
    /\ sinks = << >>
    /\ elapsed = 0
    /\ lastDt = R(0)
    /\ probe = NoProbe

Next == \E dt \in DTs, rnd \in Oracles : Update(dt, rnd)

Spec == Init /\ [][Next]_vars

-----------------------------------------------------------------------------
(* Claims checked under Spec *)

\* The particles emitter i has pushed
PushedBy(i, objs) == {k \in DOMAIN objs : objs[k].origin = i}

EmissionOf(i) == objE[i].options.emission

LifespanReached(e) == e.lifespan # R(-1) /\ RGe(e.age, e.lifespan)

\* C1: once a particle's disposed flag is true it stays true, and after
\* every update system.particles holds no disposed particle.
C1_DisposedForever ==
    /\ [](\A k \in DOMAIN particles : ~objP[particles[k]].disposed)
    /\ [][\A i \in DOMAIN objP : objP[i].disposed => objP'[i].disposed]_vars

\* A particle was disposed by an update and is gone from system.particles
C1_Witness ==
    \E i \in DOMAIN objP :
        objP[i].disposed /\ ~InSeq(i, particles) /\ elapsed >= 2

DelayMet(e) ==
    \/ e.options.emission.delay = Null
    \/ RGe(e.age, The(e.options.emission.delay))

\* What one update does to the burst emitter i
BurstStep(i) ==
    LET e == objE[i]
        e2 == objE'[i]
        n == e.options.emission.n
        emitted == RSub(e2.totalParticlesEmitted, e.totalParticlesEmitted)
        pushed == Cardinality(PushedBy(i, objP')) - Cardinality(PushedBy(i, objP))
        byBurst == e2.disposed /\ ~LifespanReached(e2)
    IN  /\ pushed = emitted[1] /\ emitted[2] = 1
        \* a disposed emitter never emits again
        /\ e.disposed => e2 = e /\ pushed = 0
        \* an emission disposes the emitter in the same update
        /\ pushed > 0 => ~e.disposed /\ e2.disposed /\ DelayMet(e2)
        \* no emission, no disposal by the burst logic
        /\ pushed = 0 /\ ~e.disposed => ~byBurst
        \* nothing while age < delay
        /\ ~DelayMet(e2) => pushed = 0
        \* n is ceil'd; n = 0 never emits
        /\ n.shape = "fixed" => pushed \in {0, RCeil(n.v)}
        /\ n.shape = "range" => /\ RLe(n.min, emitted) \/ pushed = 0
                                /\ RLe(emitted, n.max)
        \* once the delay is met, a live emitter with n > 0 emits at once
        /\ (/\ ~e.disposed
            /\ ~LifespanReached(e2)
            /\ DelayMet(e2)
            /\ n.shape = "fixed"
            /\ RCeil(n.v) > 0) => pushed = RCeil(n.v) /\ e2.disposed

\* C2: a burst emitter emits at most once: nothing while age < delay, its
\* n particles in one update once the delay is met, disposed in that same
\* update; with n = 0 or an unmet delay it neither emits nor is disposed by
\* the burst logic.
C2_BurstOnce ==
    [][\A i \in DOMAIN objE :
          EmissionOf(i).type = "burst" => BurstStep(i)]_vars

\* A burst emitter with delay 1 and n = 1.5 has emitted its 2 particles and
\* is disposed
C2_Witness ==
    \E i \in DOMAIN objE :
        /\ EmissionOf(i).type = "burst"
        /\ EmissionOf(i).delay = Some(R(1))
        /\ EmissionOf(i).n = Fixed(<<3, 2>>)
        /\ objE[i].disposed
        /\ objE[i].totalParticlesEmitted = R(2)
        /\ Cardinality(PushedBy(i, objP)) = 2
        /\ elapsed >= 3

IsFixedRate(i) ==
    /\ EmissionOf(i).type = "rate"
    /\ EmissionOf(i).rate.shape = "fixed"
    /\ RGt(EmissionOf(i).rate.v, R(0))

\* C3: for a rate emitter with fixed rate R > 0 and infinite lifespan, after
\* updates whose dt sum to T the accumulator is in [0, 1), emitted +
\* accumulator = R * T, emitted = floor(R * T), and exactly that many
\* particles were pushed.
C3_RateAccumulation ==
    \A i \in DOMAIN objE :
        IsFixedRate(i) /\ objE[i].lifespan = R(-1) =>
            LET e == objE[i]
                RT == RMul(EmissionOf(i).rate.v, e.age)
            IN  /\ RLe(R(0), e.particlesToEmit)
                /\ RLt(e.particlesToEmit, R(1))
                /\ RAdd(e.totalParticlesEmitted, e.particlesToEmit) = RT
                /\ e.totalParticlesEmitted = R(RFloor(RT))
                /\ Cardinality(PushedBy(i, objP)) = RFloor(RT)

\* A rate emitter has emitted over several updates of different dt and
\* holds a fractional remainder
C3_Witness ==
    \E i \in DOMAIN objE :
        /\ IsFixedRate(i) /\ objE[i].lifespan = R(-1)
        /\ RGe(objE[i].totalParticlesEmitted, R(3))
        /\ objE[i].particlesToEmit = <<1, 2>>
        /\ objE[i].age = <<11, 6>>
        /\ elapsed = 3

BurstEmitted(i) ==
    EmissionOf(i).type = "burst" /\ RGt(objE[i].totalParticlesEmitted, R(0))

\* C4 as claimed: an emitter with lifespan -1 is never disposed by aging,
\* and one with a finite lifespan L is disposed exactly when its age has
\* reached L, whatever its emission policy.
C4_Original ==
    \A i \in DOMAIN objE :
        IF objE[i].lifespan = R(-1)
        THEN objE[i].disposed => BurstEmitted(i)
        ELSE objE[i].disposed <=> RGe(objE[i].age, objE[i].lifespan)

\* C4 amended: a burst emitter may be disposed earlier, by its emission;
\* otherwise an emitter with finite lifespan L is disposed in exactly the
\* first update after which its age is >= L.
C4_AgingDisposal ==
    /\ [](\A i \in DOMAIN objE :
            LET e == objE[i]
            IN  /\ e.lifespan = R(-1) => (e.disposed => BurstEmitted(i))
                /\ e.lifespan # R(-1) =>
                    /\ ~e.disposed => RLt(e.age, e.lifespan)
                    /\ e.disposed =>
                          \/ RGe(e.age, e.lifespan) /\ ~BurstEmitted(i)
                          \/ RLt(e.age, e.lifespan) /\ BurstEmitted(i))
    /\ [][\A i \in DOMAIN objE :
            LET e == objE[i]
                e2 == objE'[i]
            IN  /\ e.disposed => e2 = e
                /\ (~e.disposed /\ e2.disposed /\ ~BurstEmitted(i)')
                      => RLt(e.age, e.lifespan) /\ RGe(e2.age, e.lifespan)]_vars

\* A rate emitter with lifespan 1.5 has emitted particles and was disposed
\* by an update that took its age from below 1.5 to 1.5 or more
C4_Witness ==
    \E i \in DOMAIN objE :
        /\ EmissionOf(i).type = "rate"
        /\ objE[i].lifespan = <<3, 2>>
        /\ objE[i].disposed
        /\ RGe(objE[i].age, <<3, 2>>)
        /\ RGt(objE[i].totalParticlesEmitted, R(0))

-----------------------------------------------------------------------------
(* SpecPhysics: one particle the host added, among attractors, force    *)
(* fields, sinks and colliders.  Everything lies on the x axis.         *)

Ids == {Null, Some("a"), Some("c")}

UseSettings == {UseBool(FALSE), UseBool(TRUE), UseId("a"), UseIds({"a", "b"})}

\* One element of each kind for every id; the particle is at (0, 0), in
\* range of every one of them, and either has physics or moves
SceneAttractors ==
    <<NewAttractor(V(2, 0), R(4), R(2), 1, R(-1), Null),
      NewAttractor(V(-2, 0), R(4), R(1), 0, R(1), Some("a")),
      NewAttractor(V(1, 0), R(4), R(-1), 1, R(-1), Some("c"))>>

SceneForceFields ==
    <<NewForceField(V(1, 0), R(-1), Null, R(0), Null),
      NewForceField(V(0, 0), R(-1), Some("drag"), <<1, 2>>, Some("a")),
      NewForceField(V(-2, 0), <<1, 2>>, Null, R(0), Some("c"))>>

SceneSinks ==
    <<NewSink(V(1, 0), R(4), R(1), 1, "fade", R(-1), Null),
      NewSink(V(0, 0), R(4), R(2), 0, "fade", R(-1), Some("a")),
      NewSink(V(2, 0), R(4), R(1), 1, "fade", <<1, 2>>, Some("c"))>>

SceneColliders ==
    <<NewCollider(Circle(V(-1, 0), R(20)), <<1, 2>>, R(0), R(0), Null),
      NewCollider(Circle(V(1, 0), R(20)), R(1), <<1, 2>>, R(0), Some("a")),
      NewCollider(Circle(V(2, 0), R(20)), R(0), R(0), R(0), Some("c"))>>

TargetingScene ==
    /\ \E ua \in UseSettings, uf \in UseSettings, us \in UseSettings,
          uc \in UseSettings,
          du \in {UpdatesList({"age", "physics", "direction"}),
                  UpdatesList({"age", "position"})} :
          objP = <<NewParticle(V(0, 0), V(1, 0), Null, R(100),
                               Some(DEFAULT_PARTICLE_STYLE),
                               [DEFAULT_PARTICLE_OPTIONS EXCEPT
                                    !.useAttractors = ua,
                                    !.useForceFields = uf,
                                    !.useSinks = us,
                                    !.useColliders = uc,
                                    !.defaultUpdates = du])>>
    /\ attractors = SceneAttractors
    /\ forceFields = SceneForceFields
    /\ sinks = SceneSinks
    /\ colliders = SceneColliders

\* One sink at (0, 0) and a particle at rest with the default options
SinkScene ==
    /\ \E x \in {0, 1, 2, 3}, L \in {R(1), R(10)} :
          objP = <<NewParticle(V(x, 0), V(0, 0), Null, L,
                               Some(DEFAULT_PARTICLE_STYLE),
                               DEFAULT_PARTICLE_OPTIONS)>>
    /\ \E range \in {R(2), R(60)}, strength \in {R(0), R(1), R(5)},
          falloff \in {0, 1, 2}, mode \in {"instant", "fade"},
          lifespan \in {R(-1), R(1)} :
          sinks = <<NewSink(V(0, 0), range, strength, falloff, mode,
                            lifespan, Null)>>
    /\ attractors = << >>
    /\ forceFields = << >>
    /\ colliders = << >>

\* An instant sink and a fade sink at (0, 0), in either order, and a
\* particle at rest there whose age phase is off
SinkPairScene ==
    /\ \E L \in {R(1), R(10)},
          du \in {UpdatesList({"physics"}), UpdatesList({"physics", "position"})} :
          objP = <<NewParticle(V(0, 0), V(0, 0), Null, L,
                               Some(DEFAULT_PARTICLE_STYLE),
                               [DEFAULT_PARTICLE_OPTIONS EXCEPT
                                    !.defaultUpdates = du])>>
    /\ \E strength \in {R(0), R(1), R(5)} :
          LET instant == NewSink(V(0, 0), R(2), R(1), 1, "instant", R(-1), Null)
              fade == NewSink(V(0, 0), R(2), strength, 0, "fade", R(-1), Null)
          IN  sinks \in {<<instant, fade>>, <<fade, instant>>}
    /\ attractors = << >>
    /\ forceFields = << >>
    /\ colliders = << >>

InitPhysics ==
    /\ TargetingScene \/ SinkScene \/ SinkPairScene
    /\ particles = <<1>>
    /\ emitters = << >>
    /\ objE = << >>
    /\ elapsed = MaxUpdates - MaxPhysicsUpdates
    /\ lastDt = R(0)
    /\ probe = NoProbe

SpecPhysics == InitPhysics /\ [][Next]_vars

-----------------------------------------------------------------------------
(* Claims checked under SpecPhysics *)

\* The elements of one kind that the last update applied to particle p
Applied(p, kind) ==
    {p.trace[k].i : k \in {j \in DOMAIN p.trace : p.trace[j].ev = kind}}

\* Selective targeting as documented for the use settings
Matches(u, id) ==
    IF u.t = "boolean" THEN u.b
    ELSE IF u.t = "string" THEN id # Null /\ The(id) = u.id
    ELSE id # Null /\ The(id) \in u.ids

LiveMatching(elements, u) ==
    {k \in DOMAIN elements : ~elements[k].disposed /\ Matches(u, elements[k].id)}

\* What one update does to particle id, as to targeting
TargetingStep(id) ==
    LET p == objP[id]
        q == objP'[id]
        o == p.options
        physics == "physics" \in prepareDefaultUpdates(o.defaultUpdates)
        none == IsFalse(o.useAttractors) /\ IsFalse(o.useForceFields)
                /\ IsFalse(o.useSinks) /\ IsFalse(o.useColliders)
    IN  /\ physics =>
            /\ Applied(q, "attractor") = LiveMatching(attractors, o.useAttractors)
            /\ Applied(q, "forceField") = LiveMatching(forceFields, o.useForceFields)
            /\ Applied(q, "sink") = LiveMatching(sinks, o.useSinks)
            /\ Applied(q, "collider") =
                  {k \in DOMAIN colliders : Matches(o.useColliders, colliders[k].id)}
        /\ ~physics \/ none =>
            /\ q.velocity = p.velocity
            /\ q.age = IF "age" \in prepareDefaultUpdates(o.defaultUpdates)
                       THEN RAdd(p.age, lastDt') ELSE p.age

\* C5: for each of the four kinds, a particle is affected by no element
\* when its use setting is false, by every live element when it is true,
\* only by the elements with that id when it is a string, and only by the
\* elements whose id is defined and in the array when it is an array.
C5_SelectiveTargeting ==
    [][\A k \in DOMAIN particles :
          ~objP[particles[k]].disposed => TargetingStep(particles[k])]_vars

\* An update applied to a particle the attractor with id "a" only, the
\* sink with id "a" only, every force field and no collider, three elements
\* of each kind being in range
C5_Witness ==
    \E i \in DOMAIN objP :
        /\ objP[i].options.useAttractors = UseId("a")
        /\ objP[i].options.useSinks = UseIds({"a", "b"})
        /\ objP[i].options.useForceFields = UseBool(TRUE)
        /\ objP[i].options.useColliders = UseBool(FALSE)
        /\ Applied(objP[i], "attractor") = {2}
        /\ Applied(objP[i], "sink") = {2}
        /\ Applied(objP[i], "forceField") = {1, 2, 3}
        /\ Applied(objP[i], "collider") = {}
        /\ Len(colliders) = 3
        /\ elapsed = MaxUpdates - MaxPhysicsUpdates + 1

InRangeOfInstantSink(p) ==
    \E k \in DOMAIN sinks :
        /\ ~sinks[k].disposed
        /\ sinks[k].mode = "instant"
        /\ RLe(Distance(sinks[k].position, p.position), sinks[k].range)

\* C9 as claimed: a particle with the default options that is in range of
\* a live instant sink during an update is disposed, and out of
\* system.particles, when that update returns.
C9_InstantDisposes ==
    [][\A k \in DOMAIN particles :
          LET p == objP[particles[k]]
          IN  (/\ ~p.disposed
               /\ p.options = DEFAULT_PARTICLE_OPTIONS
               /\ InRangeOfInstantSink(p))
              => /\ objP'[particles[k]].disposed
                 /\ ~InSeq(particles[k], particles')]_vars

\* What the code does: the sink sets age = lifespan after the age phase has
\* run, so the particle is disposed by the next update
C9_Actual ==
    [][\A k \in DOMAIN particles :
          LET p == objP[particles[k]]
              q == objP'[particles[k]]
          IN  (/\ ~p.disposed
               /\ p.options = DEFAULT_PARTICLE_OPTIONS
               /\ InRangeOfInstantSink(p))
              => /\ q.age = p.lifespan
                 /\ q.disposed <=> RGe(RAdd(p.age, lastDt'), p.lifespan)
                 /\ InSeq(particles[k], particles') <=> ~q.disposed]_vars

AtCentreOfFadeSink(p) ==
    /\ Len(sinks) = 1
    /\ ~sinks[1].disposed
    /\ sinks[1].mode = "fade"
    /\ sinks[1].position = p.position

\* C10 as claimed: at the centre of a fade sink of strength S the age of a
\* particle with the default options grows by S * dt in one update.
C10_FadeStrength ==
    [][\A k \in DOMAIN particles :
          LET p == objP[particles[k]]
          IN  (/\ ~p.disposed
               /\ p.options = DEFAULT_PARTICLE_OPTIONS
               /\ AtCentreOfFadeSink(p))
              => objP'[particles[k]].age =
                    RAdd(p.age, RMul(sinks[1].strength, lastDt'))]_vars

\* What the code does: the age grows by (1 + S) * dt
C10_Actual ==
    [][\A k \in DOMAIN particles :
          LET p == objP[particles[k]]
          IN  (/\ ~p.disposed
               /\ p.options = DEFAULT_PARTICLE_OPTIONS
               /\ AtCentreOfFadeSink(p))
              => objP'[particles[k]].age =
                    RAdd(p.age, RMul(RAdd(R(1), sinks[1].strength), lastDt'))]_vars

-----------------------------------------------------------------------------
(* SpecCalls: direct calls of Attractor.applyForce, Sink.affect and      *)
(* Collider.handleCollision on one particle                              *)

ProbeParticles ==
    {[NewParticle(position, velocity, Null, R(1),
                  Some(DEFAULT_PARTICLE_STYLE), DEFAULT_PARTICLE_OPTIONS)
        EXCEPT !.age = age] :
        position \in {V(0, 0), V(1, 0), V(2, 0), V(3, 0), V(3, 4), V(0, -2)},
        velocity \in {V(0, 0), V(1, 0)},
        age \in {R(0), <<1, 2>>, R(2)}}

ProbeRanges == {R(0), R(2), R(5)}

ProbeAttractors ==
    {NewAttractor(V(0, 0), range, force, falloff, R(-1), Null) :
        range \in ProbeRanges, force \in {R(-2), R(1), R(3)},
        falloff \in {0, 1, 2}}

ProbeSinks ==
    {NewSink(V(0, 0), range, strength, falloff, mode, R(-1), Null) :
        range \in ProbeRanges, strength \in {R(0), R(1), R(5)},
        falloff \in {0, 1, 2}, mode \in {"instant", "fade"}}

ProbeColliders ==
    {NewCollider(Circle(V(0, 0), R(1)), restitution, friction, randomness, Null) :
        restitution \in {R(0), <<1, 2>>, R(1)},
        friction \in {R(0), <<1, 2>>},
        randomness \in {R(0), <<1, 2>>, R(1)}}

ProbeVelocities ==
    {V(100, 0), V(-100, 0), V(0, 0), V(3, -4), V(-5, 5), V(0, 7), V(2, 2)}

\* The contact normals: unit vectors, or none
ProbeNormals ==
    {Null, Some(V(1, 0)), Some(V(-1, 0)), Some(V(0, 1)), Some(V(0, -1)),
     Some(Vec(<<3, 5>>, <<4, 5>>)), Some(Vec(<<-4, 5>>, <<3, 5>>))}

\* A call about to be made: its receiver and its arguments
Pending(op, el, p, dt, normal, angle) ==
    [op |-> op, el |-> Some(el), p |-> Some(p), dt |-> dt, q |-> Null,
     normal |-> normal, angle |-> angle]

PendingCalls ==
    {Pending("applyForce", a, p, dt, Null, 0) :
        a \in ProbeAttractors, p \in ProbeParticles, dt \in DTs}
    \cup
    {Pending("affect", s, p, dt, Null, 0) :
        s \in ProbeSinks, p \in ProbeParticles, dt \in DTs}
    \cup
    UNION {{Pending("handleCollision", c,
                    NewParticle(V(0, 0), v, Null, R(1),
                                Some(DEFAULT_PARTICLE_STYLE),
                                DEFAULT_PARTICLE_OPTIONS),
                    R(0), normal, angle) :
                angle \in RandomAngles(c.randomness) \cup {0},
                v \in ProbeVelocities, normal \in ProbeNormals} :
           c \in ProbeColliders}

ProbeEl == The(probe.el)

ProbeP == The(probe.p)

ProbeQ == The(probe.q)

\* The call returns, leaving the particle as q
Returns(q) ==
    /\ probe.q = Null
    /\ probe' = [probe EXCEPT !.q = Some(q)]
    /\ UNCHANGED <<particles, emitters, attractors, forceFields, colliders,
                   sinks, objP, objE, elapsed, lastDt>>

CallApplyForce ==
    /\ probe.op = "applyForce"
    /\ Returns(AttractorApplyForce(ProbeEl, ProbeP, probe.dt))

CallAffect ==
    /\ probe.op = "affect"
    /\ Returns(SinkAffect(ProbeEl, ProbeP, probe.dt))

\* handleCollision on a particle in contact, the narrow phase giving normal
CallHandleCollision ==
    /\ probe.op = "handleCollision"
    /\ Returns([ProbeP EXCEPT !.velocity =
                   CollisionResponse(ProbeEl, ProbeP.velocity, probe.normal,
                                     probe.angle)])

\* handleCollision called once more on the particle the first call has
\* left, at the same contact
CallHandleCollisionAgain ==
    /\ probe.op = "handleCollision"
    /\ probe.q # Null
    /\ probe' = [probe EXCEPT
                    !.op = "handleCollisionAgain",
                    !.p = probe.q,
                    !.q = Some([ProbeQ EXCEPT !.velocity =
                                  CollisionResponse(ProbeEl, ProbeQ.velocity,
                                                    probe.normal, probe.angle)])]
    /\ UNCHANGED <<particles, emitters, attractors, forceFields, colliders,
                   sinks, objP, objE, elapsed, lastDt>>

InitCalls ==
    /\ particles = << >>
    /\ emitters = << >>
    /\ attractors = << >>
    /\ forceFields = << >>
    /\ colliders = << >>
    /\ sinks = << >>
    /\ objP = << >>
    /\ objE = << >>
    /\ elapsed = 0
    /\ lastDt = R(0)
    /\ probe \in PendingCalls

NextCalls ==
    \/ CallApplyForce
    \/ CallAffect
    \/ CallHandleCollision
    \/ CallHandleCollisionAgain

SpecCalls == InitCalls /\ [][NextCalls]_vars

-----------------------------------------------------------------------------
(* Claims checked under SpecCalls *)

Returned(op) == probe.op = op /\ probe.q # Null

ProbeDistance == Distance(ProbeEl.position, ProbeP.position)

\* The tangential part of velocity v at a contact with unit normal n
Tangential(v, n) == VSub(v, VScale(n, VDot(v, n)))

\* C6: with friction 0 and randomness 0, for a contact with unit normal n
\* and incoming velocity v, v.n <= 0, handleCollision leaves a velocity
\* whose normal component is -restitution * (v.n) and whose tangential
\* component is that of v; v = (100, 0), n = (-1, 0), restitution 0.5 gives
\* velocity.x = -50.
C6_CollisionResponse ==
    (/\ Returned("handleCollision")
     /\ ProbeEl.friction = R(0)
     /\ ProbeEl.randomness = R(0)
     /\ probe.normal # Null
     /\ RLe(VDot(ProbeP.velocity, The(probe.normal)), R(0)))
    => LET n == The(probe.normal)
           v == ProbeP.velocity
           w == ProbeQ.velocity
       IN  /\ VDot(w, n) = RMul(RNeg(ProbeEl.restitution), VDot(v, n))
           /\ Tangential(w, n) = Tangential(v, n)
           /\ (ProbeEl.restitution = R(1) /\ n.y = R(0) /\ v.y = R(0))
                 => w = VScale(v, R(-1))
           /\ (v = V(100, 0) /\ n = V(-1, 0) /\ ProbeEl.restitution = <<1, 2>>)
                 => w.x = R(-50)

\* The scenario: v = (100, 0), n = (-1, 0), restitution 0.5, friction 0,
\* randomness 0 has given velocity (-50, 0)
C6_Witness ==
    /\ Returned("handleCollision")
    /\ ProbeEl.friction = R(0)
    /\ ProbeEl.randomness = R(0)
    /\ ProbeEl.restitution = <<1, 2>>
    /\ probe.normal = Some(V(-1, 0))
    /\ ProbeP.velocity = V(100, 0)
    /\ ProbeQ.velocity = V(-50, 0)

IsFadeCall ==
    \/ Returned("applyForce")
    \/ Returned("affect") /\ ProbeEl.mode = "fade"

\* C7 as claimed: Attractor.applyForce and Sink.affect (fade) apply exactly
\* nothing at distance == range and at distance > range, and something
\* finite at every distance in [0, range).
C7_ZeroAtRange ==
    IsFadeCall =>
        /\ RGe(ProbeDistance, ProbeEl.range) =>
              /\ ProbeQ.velocity = ProbeP.velocity
              /\ ProbeQ.age = ProbeP.age
        /\ RLt(ProbeDistance, ProbeEl.range) =>
              /\ IsFinite(ProbeQ.velocity.x)
              /\ IsFinite(ProbeQ.velocity.y)
              /\ IsFinite(ProbeQ.age)

\* What the code does: the claim holds for every range but 0; with range 0
\* a particle at distance 0 gets NaN (0 / 0 in d / range)
C7_Actual ==
    IsFadeCall =>
        /\ (RGe(ProbeDistance, ProbeEl.range)
            /\ ~(ProbeEl.range = R(0) /\ ProbeDistance = R(0))) =>
              /\ ProbeQ.velocity = ProbeP.velocity
              /\ ProbeQ.age = ProbeP.age
        /\ RLt(ProbeDistance, ProbeEl.range) =>
              /\ IsFinite(ProbeQ.velocity.x)
              /\ IsFinite(ProbeQ.velocity.y)
              /\ IsFinite(ProbeQ.age)
        /\ (ProbeEl.range = R(0) /\ ProbeDistance = R(0)) =>
              IF probe.op = "affect" THEN IsNaN(ProbeQ.age)
              ELSE IsNaN(ProbeQ.velocity.x) /\ IsNaN(ProbeQ.velocity.y)

\* C8: an instant sink sets the age of a particle at distance <= range to
\* exactly its lifespan, whatever dt and the age before, and changes
\* nothing else; a particle at distance > range is left unchanged.
C8_InstantSink ==
    (Returned("affect") /\ ProbeEl.mode = "instant") =>
        IF RLe(ProbeDistance, ProbeEl.range)
        THEN ProbeQ = [ProbeP EXCEPT !.age = ProbeP.lifespan]
        ELSE ProbeQ = ProbeP

\* An instant sink has reset the age of a particle exactly at its range,
\* older than its lifespan, to the lifespan
C8_Witness ==
    /\ Returned("affect")
    /\ ProbeEl.mode = "instant"
    /\ ProbeEl.range = R(2)
    /\ ProbeDistance = R(2)
    /\ ProbeP.age = R(2)
    /\ ProbeQ.age = R(1)
    /\ probe.dt = <<1, 3>>

-----------------------------------------------------------------------------
(* SpecHost: a host that calls ParticleSystem.update, and also the update *)
(* of single particles and emitters of the system                        *)

HostSceneParticles ==
    {<< >>,
     <<NewParticle(V(0, 0), V(1, 0), Null, <<1, 2>>,
                   Some(DEFAULT_PARTICLE_STYLE), DEFAULT_PARTICLE_OPTIONS)>>,
     <<NewParticle(V(0, 0), V(1, 0), Null, <<1, 2>>,
                   Some(DEFAULT_PARTICLE_STYLE), DEFAULT_PARTICLE_OPTIONS),
       NewParticle(V(3, 0), V(-1, 0), Null, R(1),
                   Some(DEFAULT_PARTICLE_STYLE),
                   [DEFAULT_PARTICLE_OPTIONS EXCEPT !.useSinks = UseBool(FALSE)])>>}

HostSceneEmitters ==
    {<< >>,
     <<NewEmitter(V(0, 0), V(0, 0), R(-1), DEFAULT_PARTICLE_TEMPLATE,
                  BurstEmission(Fixed(R(1)), Null))>>,
     <<NewEmitter(V(0, 0), V(0, 0), R(1), DEFAULT_PARTICLE_TEMPLATE,
                  RateEmission(Fixed(R(1))))>>}

\* Either no element of any kind, or a live one of each kind
HostSceneElements ==
    \/ /\ attractors = << >>
       /\ forceFields = << >>
       /\ sinks = << >>
       /\ colliders = << >>
    \/ /\ attractors = <<NewAttractor(V(50, 0), R(1), R(1), 1, R(-1), Null)>>
       /\ forceFields = <<NewForceField(V(1, 0), R(-1), Null, R(0), Null)>>
       /\ sinks = <<NewSink(V(0, 0), R(1), R(1), 1, "instant", R(-1), Null)>>
       /\ colliders = <<NewCollider(Circle(V(50, 0), R(1)), R(1), R(0), R(0),
                                    Null)>>

InitHost ==
    /\ objP \in HostSceneParticles
    /\ particles = [i \in DOMAIN objP |-> i]
    /\ objE \in HostSceneEmitters
    /\ emitters = [i \in DOMAIN objE |-> i]
    /\ HostSceneElements
    /\ elapsed = 0
    /\ lastDt = R(0)
    /\ probe = NoProbe

NextHost ==
    \/ \E dt \in DTs, rnd \in Oracles : Update(dt, rnd)
    \/ \E k \in DOMAIN particles, dt \in DTs, rnd \in Oracles :
          CallParticleUpdate(k, dt, rnd.angle)
    \/ \E k \in DOMAIN emitters, dt \in DTs, rnd \in Oracles :
          CallEmitterUpdate(k, dt, rnd)

SpecHost == InitHost /\ [][NextHost]_vars

-----------------------------------------------------------------------------
(* Claims checked under SpecHost *)

\* C11: ParticleSystem.disposed is true exactly when every particle of
\* system.particles and every emitter of system.emitters is disposed (so
\* it is true when both are empty), whatever attractors, force fields,
\* sinks and colliders the system holds.
C11_SystemDisposed ==
    ParticleSystemDisposed <=>
        /\ \A k \in DOMAIN particles : objP[particles[k]].disposed
        /\ \A k \in DOMAIN emitters : objE[emitters[k]].disposed

\* The system is disposed while it still holds disposed particles, a
\* disposed emitter and a live element of every kind
C11_Witness ==
    /\ ParticleSystemDisposed
    /\ Len(particles) = 2
    /\ Len(emitters) = 1
    /\ attractors # << >> /\ ~attractors[1].disposed
    /\ forceFields # << >>
    /\ sinks # << >>
    /\ colliders # << >>

-----------------------------------------------------------------------------
(* SpecSteady: one rate emitter of zero size at (400, 300), rate 10,     *)
(* infinite lifespan, particles of lifespan 2 s, updated at a fixed dt    *)

MaxSteadyUpdates == 150

MaxSteadyParticles == 30

SteadyDTs == {<<1, 60>>, <<1, 30>>}

InitSteady ==
    /\ objE = <<NewEmitter(V(400, 300), V(0, 0), R(-1),
                           [DEFAULT_PARTICLE_TEMPLATE EXCEPT
                                !.lifespan = Fixed(R(2))],
                           RateEmission(Fixed(R(10))))>>
    /\ emitters = <<1>>
    /\ objP = << >>
    /\ particles = << >>
    /\ attractors = << >>
    /\ forceFields = << >>
    /\ colliders = << >>
    /\ sinks = << >>
    /\ elapsed = 0
    /\ lastDt = R(0)
    /\ probe = NoProbe

\* The host updates the system with the same dt in every frame
SteadyUpdate ==
    \E dt \in SteadyDTs :
        /\ elapsed = 0 \/ dt = lastDt
        /\ elapsed < MaxSteadyUpdates
        /\ ParticleSystemUpdate(dt, [u |-> 0, angle |-> 0], MaxSteadyParticles)

SpecSteady == InitSteady /\ [][SteadyUpdate]_vars

\* The time the updates so far have covered
Clock == RMul(R(elapsed), lastDt)

-----------------------------------------------------------------------------
(* SpecScenes: ParticleSystem.update on scenes made for the phases of    *)
(* Particle.update, for trails and for the order of the sub-updates       *)

\* One element of each kind; only the force field reaches the particle
PhaseSceneElements ==
    /\ attractors = <<NewAttractor(V(50, 0), R(1), R(1), 1, R(-1), Null)>>
    /\ forceFields = <<NewForceField(V(-6, 0), R(-1), Null, R(0), Null)>>
    /\ sinks = <<NewSink(V(50, 0), R(1), R(1), 1, "instant", R(-1), Null)>>
    /\ colliders = <<NewCollider(Circle(V(50, 0), R(1)), R(1), R(0), R(0), Null)>>

NoElements ==
    /\ attractors = << >>
    /\ forceFields = << >>
    /\ sinks = << >>
    /\ colliders = << >>

SceneUpdates ==
    {UpdatesAll, UpdatesNone, UpdatesList({"age", "physics"}),
     UpdatesList({"direction", "position"}),
     UpdatesList({"physics", "position"})}

\* A particle moving along the x axis among the elements, or along the y
\* axis with no element
PhaseScene ==
    /\ \/ /\ PhaseSceneElements
          /\ \E rotation \in {Null, Some(R(1))}, L \in {<<1, 2>>, R(100)},
                du \in SceneUpdates, maxSpeed \in {R(-1), R(0), R(2)},
                hook \in {"none", "mark", "reverse"} :
                objP = <<NewParticle(V(0, 0), V(3, 0), rotation, L,
                                     Some(DEFAULT_PARTICLE_STYLE),
                                     [DEFAULT_PARTICLE_OPTIONS EXCEPT
                                         !.defaultUpdates = du,
                                         !.maxSpeed = maxSpeed,
                                         !.update = hook])>>
       \/ /\ NoElements
          /\ \E rotation \in {Null, Some(R(1))}, vy \in {-3, 3},
                du \in {UpdatesAll, UpdatesNone},
                maxSpeed \in {R(-1), R(0), R(2)} :
                objP = <<NewParticle(V(0, 0), V(0, vy), rotation, R(100),
                                     Some(DEFAULT_PARTICLE_STYLE),
                                     [DEFAULT_PARTICLE_OPTIONS EXCEPT
                                         !.defaultUpdates = du,
                                         !.maxSpeed = maxSpeed])>>
    /\ particles = <<1>>
    /\ objE = << >>
    /\ emitters = << >>

\* A particle with a trail, moving or at rest
TrailScene ==
    /\ NoElements
    /\ \E length \in {1, 2}, decayTime \in {Null, Some(R(2))}, vx \in {0, 12},
          du \in {UpdatesAll, UpdatesList({"age"}), UpdatesList({"position"})} :
          objP = <<NewParticle(V(0, 0), V(vx, 0), Null, R(100),
                               Some([style |-> "dot",
                                     trail |-> Some([length |-> R(length),
                                                     decayTime |-> decayTime])]),
                               [DEFAULT_PARTICLE_OPTIONS EXCEPT
                                   !.defaultUpdates = du])>>
    /\ particles = <<1>>
    /\ objE = << >>
    /\ emitters = << >>

\* An emitter, a particle, and an attractor, a force field and a sink that
\* reach their lifespans
OrderScene ==
    /\ \E L \in {<<1, 3>>, R(1)} :
          /\ attractors = <<NewAttractor(V(50, 0), R(1), R(1), 1, L, Null)>>
          /\ forceFields = <<NewForceField(V(1, 0), L, Null, R(0), Null)>>
          /\ sinks = <<NewSink(V(50, 0), R(1), R(1), 1, "fade", L, Null)>>
    /\ colliders = << >>
    /\ \E em \in {BurstEmission(Fixed(R(2)), Null), RateEmission(Fixed(R(3)))},
          speed \in {R(0), R(2)} :
          objE = <<NewEmitter(V(4, 0), V(0, 0), R(-1),
                              [DEFAULT_PARTICLE_TEMPLATE EXCEPT
                                  !.speed = Fixed(speed)], em)>>
    /\ emitters = <<1>>
    /\ \E du \in {UpdatesAll, UpdatesList({"age", "physics"}),
                  UpdatesList({"age", "position"})} :
          objP = <<NewParticle(V(0, 0), V(1, 0), Null, R(100),
                               Some(DEFAULT_PARTICLE_STYLE),
                               [DEFAULT_PARTICLE_OPTIONS EXCEPT
                                   !.defaultUpdates = du])>>
    /\ particles = <<1>>

InitScenes ==
    /\ PhaseScene \/ TrailScene \/ OrderScene
    /\ elapsed = MaxUpdates - MaxPhysicsUpdates
    /\ lastDt = R(0)
    /\ probe = NoProbe

SpecScenes == InitScenes /\ [][Next]_vars

-----------------------------------------------------------------------------
(* Claims checked under SpecScenes *)

\* The particles the step updates: those of system.particles not disposed
Updated == {particles[k] : k \in {j \in DOMAIN particles :
                                    ~objP[particles[j]].disposed}}

\* C13: after an update the render rotation of a particle with rotation =
\* null is the heading of its velocity as left by physics and the custom
\* hook if 'direction' is enabled and 0 if it is not; the render rotation
\* of a particle with a rotation is that rotation.
C13_RenderRotation ==
    [][\A i \in Updated :
          LET p == objP[i]
              q == objP'[i]
              direction ==
                  "direction" \in prepareDefaultUpdates(p.options.defaultUpdates)
          IN  q.actualRotation =
                  IF p.rotation # Null THEN The(p.rotation)
                  ELSE IF direction THEN VRad(q.velocity)
                  ELSE R(0)]_vars

\* A particle with rotation = null, all phases and the reversing hook:
\* the force field has slowed it from (3, 0) to (1, 0), the hook has turned
\* it to (-1, 0), and its render rotation is PI (2 quarter turns)
C13_Witness ==
    \E i \in DOMAIN objP :
        /\ objP[i].rotation = Null
        /\ objP[i].options.update = "reverse"
        /\ objP[i].options.defaultUpdates = UpdatesAll
        /\ objP[i].velocity = V(-1, 0)
        /\ objP[i].actualRotation = R(2)
        /\ objP[i].age = <<1, 3>>

\* The particles of the step whose physics phase runs and whose velocity no
\* hook changes afterwards, so that velocity' is the velocity at the end of
\* the physics phase
PhysicsOnly(i) ==
    /\ "physics" \in prepareDefaultUpdates(objP[i].options.defaultUpdates)
    /\ objP[i].options.update # "reverse"

\* C14: when the physics phase is enabled and maxSpeed >= 0, the velocity
\* magnitude at the end of the physics phase is at most maxSpeed (maxSpeed =
\* 0 stops the particle); only -1 means no limit.
C14_SpeedClamp ==
    [][\A i \in Updated :
          (PhysicsOnly(i) /\ RGe(objP[i].options.maxSpeed, R(0)))
              => RLe(VLen(objP'[i].velocity), objP[i].options.maxSpeed)]_vars

\* What the code does: the clamp is applied when maxSpeed > 0, and a
\* particle with maxSpeed = 0 keeps the velocity the forces have given it
C14_Actual ==
    [][\A i \in Updated :
          PhysicsOnly(i) =>
              /\ RGt(objP[i].options.maxSpeed, R(0))
                    => RLe(VLen(objP'[i].velocity), objP[i].options.maxSpeed)
              /\ (objP[i].options.maxSpeed = R(0) /\ forceFields = << >>)
                    => objP'[i].velocity = objP[i].velocity]_vars

-----------------------------------------------------------------------------
(* SpecEmitters: ParticleSystem.update on one emitter with a position    *)
(* function or a random-range rate                                        *)

EmitterSceneEmissions ==
    {RateEmission(Range(R(0), R(4))), RateEmission(Range(R(1), R(3))),
     RateEmission(Range(R(-2), R(2))), RateEmission(Fixed(R(3))),
     BurstEmission(Fixed(R(3)), Null)}

InitEmitters ==
    /\ \E size \in {V(0, 0), V(2, 2)}, position \in {"function", "uniform"},
          em \in EmitterSceneEmissions :
          objE = <<NewEmitter(V(4, 0), size, R(-1),
                              [DEFAULT_PARTICLE_TEMPLATE EXCEPT
                                  !.position = position], em)>>
    /\ emitters = <<1>>
    /\ objP = << >>
    /\ particles = << >>
    /\ NoElements
    /\ elapsed = MaxUpdates - MaxPhysicsUpdates
    /\ lastDt = R(0)
    /\ probe = NoProbe

SpecEmitters == InitEmitters /\ [][Next]_vars

-----------------------------------------------------------------------------
(* Claims checked under SpecEmitters *)

\* The objects the step creates
Created == (Len(objP) + 1)..Len(objP')

\* The 0-based index of created particle i in the batch of its emitter
BatchIndex(i) ==
    Cardinality({j \in Created : j < i /\ objP'[j].origin = objP'[i].origin})

HasPositionFunction(i) ==
    /\ objP'[i].origin # 0
    /\ objE[objP'[i].origin].options.particles.position = "function"

\* C15: when particles.position is a function, here n |-> (n, n), the
\* initial position of every emitted particle is the value of the function
\* at the 0-based index of the particle in its batch, whatever the size of
\* the emitter is, the default size (0, 0) included.
C15_PositionFunction ==
    [][\A i \in Created :
          HasPositionFunction(i)
              => objP'[i].position = V(BatchIndex(i), BatchIndex(i))]_vars

\* What the code does: an emitter of size (0, 0) puts every particle at its
\* own position and never calls the function
C15_Actual ==
    [][\A i \in Created :
          HasPositionFunction(i)
              => objP'[i].position =
                    IF vectorAlmostZero(objE[objP'[i].origin].size)
                    THEN objE[objP'[i].origin].position
                    ELSE V(BatchIndex(i), BatchIndex(i))]_vars

\* The emitters of the step with a random-range rate that are not on their
\* first update
RangeRated ==
    {emitters[k] : k \in {j \in DOMAIN emitters :
        /\ ~objE[emitters[j]].disposed
        /\ objE[emitters[j]].options.emission.type = "rate"
        /\ isRandomRange(objE[emitters[j]].options.emission.rate)
        /\ objE[emitters[j]].age # R(0)}}

\* The time since the last sample of the rate, this update included
SinceSample(i) == RAdd(objE[i].lastRateChange, lastDt')

\* The update has sampled the rate: it has reset lastRateChange
Sampled(i) == objE'[i].lastRateChange = R(0)

\* C17: an emitter whose rate is a random range samples its current rate on
\* its first update and afterwards once per 1-second window: at least 1
\* second of dt lies between two consecutive samples and the current rate
\* is constant in between, for every range.
C17_RateResample ==
    [][/\ \A k \in DOMAIN emitters :
             LET e == objE[emitters[k]]
             IN  (/\ ~e.disposed
                  /\ e.options.emission.type = "rate"
                  /\ isRandomRange(e.options.emission.rate)
                  /\ e.age = R(0))
                     => Sampled(emitters[k])
       /\ \A i \in RangeRated :
             IF RGe(SinceSample(i), R(RANDOM_RATE_CHANGE_INTERVAL))
             THEN Sampled(i)
             ELSE /\ ~Sampled(i)
                  /\ objE'[i].currentRate = objE[i].currentRate]_vars

\* What the code does: a current rate <= 0 is sampled again by the next
\* update, whatever time has passed; a current rate > 0 is kept for 1 second
C17_Actual ==
    [][\A i \in RangeRated :
          /\ Sampled(i) <=>
                \/ RLe(objE[i].currentRate, R(0))
                \/ RGe(SinceSample(i), R(RANDOM_RATE_CHANGE_INTERVAL))
          /\ ~Sampled(i) => objE'[i].currentRate = objE[i].currentRate]_vars

HasTrail(p) == p.style # Null /\ The(p.style).trail # Null

TrailOf(p) == The(The(p.style).trail)

DecayTimeOf(p) ==
    IF TrailOf(p).decayTime = Null THEN <<1, 2>> ELSE The(TrailOf(p).decayTime)

\* At most trail.length samples are stored, and every sample but a
\* just-appended one (the last, of age 0) is younger than decayTime
TrailCapped ==
    \A i \in DOMAIN objP :
        HasTrail(objP[i]) =>
            LET ts == objP[i].trailSegments
            IN  /\ RLe(R(Len(ts)), TrailOf(objP[i]).length)
                /\ \A j \in DOMAIN ts :
                      \/ RLt(ts[j].age, DecayTimeOf(objP[i]))
                      \/ j = Len(ts) /\ ts[j].age = R(0)

\* new is old without its k oldest samples, aged by dt, followed by a
\* appended samples at position
OldestFirst(old, new, k, a, position, full) ==
    /\ Len(new) = Len(old) - k + a
    /\ \A j \in 1..(Len(old) - k) :
          new[j] = [old[k + j] EXCEPT !.age = RAdd(@, lastDt')]
    /\ a = 1 => /\ new[Len(new)].position = position
                /\ new[Len(new)].age = R(0)
                /\ full => k >= 1

\* C16: a particle with a trail of length L >= 1 stores at most L samples
\* after its construction and after every update, the oldest samples are
\* the ones discarded when a sample is appended to a full trail, and no
\* stored sample but a just-appended one has an age >= decayTime (0.5 s if
\* none is given).
C16_TrailCap ==
    /\ []TrailCapped
    /\ [][\A i \in Updated :
             HasTrail(objP[i]) =>
                \E k \in 0..Len(objP[i].trailSegments), a \in {0, 1} :
                    OldestFirst(objP[i].trailSegments,
                                objP'[i].trailSegments, k, a,
                                objP'[i].position,
                                R(Len(objP[i].trailSegments))
                                    = TrailOf(objP[i]).length)]_vars

\* A full trail of length 2 has lost the sample of the constructor
C16_Witness ==
    \E i \in DOMAIN objP :
        /\ HasTrail(objP[i])
        /\ TrailOf(objP[i]).length = R(2)
        /\ Len(objP[i].trailSegments) = 2
        /\ objP[i].trailSegments[1].position = V(6, 0)
        /\ objP[i].trailSegments[2].position = V(12, 0)

\* Every element of fields that is live before the step and matches the use
\* setting has been applied to the updated particle q of the step
AllApplied(q, kind, fields, use) ==
    \A k \in DOMAIN fields :
        (~fields[k].disposed /\ Matches(use, fields[k].id))
            => k \in Applied(q, kind)

\* The step has aged fields, and after has only those left that are not
\* disposed
Filtered(fields, after) ==
    /\ after = FilterFields(UpdateFields(fields, lastDt'))
    /\ \A k \in DOMAIN after : ~after[k].disposed

\* C18: ParticleSystem.update updates the particles, then the emitters,
\* then the attractors, the force fields and the sinks, and filters each
\* collection after its update.  (i) A particle emitted during the call is
\* not updated in it: it has age 0 and is at its spawn position when the
\* call returns.  (ii) An attractor, force field or sink that becomes
\* disposed during the call has been applied to every eligible particle in
\* that call, and is in the system for no later call.
C18_UpdateOrder ==
    [][/\ \A i \in Created :
             LET q == objP'[i]
                 e == objE[q.origin]
             IN  /\ q.origin # 0
                 /\ q.age = R(0)
                 /\ q.trace = << >>
                 /\ vectorAlmostZero(e.size) => q.position = e.position
                 /\ q.velocity.x = e.options.particles.speed.v
                 /\ InSeq(i, particles')
       /\ \A i \in Updated :
             LET o == objP[i].options
             IN  "physics" \in prepareDefaultUpdates(o.defaultUpdates) =>
                    /\ AllApplied(objP'[i], "attractor", attractors,
                                  o.useAttractors)
                    /\ AllApplied(objP'[i], "forceField", forceFields,
                                  o.useForceFields)
                    /\ AllApplied(objP'[i], "sink", sinks, o.useSinks)
       /\ Filtered(attractors, attractors')
       /\ Filtered(forceFields, forceFields')
       /\ Filtered(sinks, sinks')]_vars

\* One update of 1/3 s: the attractor, the force field and the sink have
\* reached their lifespan of 1/3 s and are gone, after they have been
\* applied to the particle, which the force field has accelerated from
\* (1, 0) to (4/3, 0), and the emitted particles have not moved
C18_Witness ==
    /\ attractors = << >> /\ forceFields = << >> /\ sinks = << >>
    /\ Len(objP) = 3
    /\ objP[1].age = <<1, 3>>
    /\ objP[1].velocity = Vec(<<4, 3>>, R(0))
    /\ objP[1].position = Vec(<<4, 9>>, R(0))
    /\ Applied(objP[1], "attractor") = {1}
    /\ Applied(objP[1], "forceField") = {1}
    /\ Applied(objP[1], "sink") = {1}
    /\ \A i \in {2, 3} : /\ objP[i].origin = 1
                         /\ objP[i].age = R(0)
                         /\ objP[i].position = V(4, 0)
                         /\ objP[i].velocity = V(2, 0)

\* The custom hook of q has been invoked by the last update of q
HookInvoked(q) == \E j \in DOMAIN q.trace : q.trace[j].ev = "update"

\* C19: once the disposed flag of a particle is set the particle is inert:
\* the phases of Particle.update after the one that has set the flag, and
\* every later ParticleSystem.update, leave its position and velocity (and
\* age) unchanged and do not invoke its custom hook, and the particle is
\* removed from system.particles by the end of the update pass.
C19_DisposedInert ==
    [][/\ \A i \in Updated :
             objP'[i].disposed =>
                /\ objP'[i].position = objP[i].position
                /\ objP'[i].velocity = objP[i].velocity
                /\ ~HookInvoked(objP'[i])
       /\ \A i \in DOMAIN objP :
             /\ objP[i].disposed => objP'[i] = objP[i]
             /\ objP'[i].disposed => ~InSeq(i, particles')]_vars

\* What the code does: the age phase sets the flag and the update goes on
\* with physics, hook, direction, position and trail; afterwards no
\* ParticleSystem.update touches the particle, which is removed in the pass
\* that has disposed it
C19_Actual ==
    [][/\ \A i \in Updated :
             LET p == objP[i]
                 q == objP'[i]
                 du == prepareDefaultUpdates(p.options.defaultUpdates)
             IN  /\ q.disposed <=>
                        "age" \in du /\ RGe(RAdd(p.age, lastDt'), p.lifespan)
                 /\ HookInvoked(q) <=> p.options.update # "none"
                 /\ "position" \in du =>
                        q.position = VAdd(p.position,
                                          VScale(q.velocity, lastDt'))
       /\ \A i \in DOMAIN objP :
             /\ objP[i].disposed => objP'[i] = objP[i]
             /\ objP'[i].disposed => ~InSeq(i, particles')]_vars

\* defaultUpdates as documented: 'all' lists the four phases, 'none' none
Listed(du, phase) ==
    \/ du.kind = "all" /\ phase \in {"age", "physics", "direction", "position"}
    \/ du.kind = "array" /\ phase \in du.list

\* The place of a call in the documented order of Particle.update
Rank(ev) ==
    CASE ev = "age" -> 1
      [] ev = "attractor" -> 2
      [] ev = "forceField" -> 3
      [] ev = "sink" -> 4
      [] ev = "collider" -> 5
      [] ev = "update" -> 6
      [] ev = "direction" -> 7
      [] ev = "position" -> 8

Calls(q, ev) == {j \in DOMAIN q.trace : q.trace[j].ev = ev}

\* What one update does to particle i, as to its phases
PhaseStep(i) ==
    LET p == objP[i]
        q == objP'[i]
        o == p.options
        du == o.defaultUpdates
    IN  /\ \A j, k \in DOMAIN q.trace :
              j < k => Rank(q.trace[j].ev) <= Rank(q.trace[k].ev)
        /\ Calls(q, "age") # {} <=> Listed(du, "age")
        /\ Calls(q, "position") # {} <=> Listed(du, "position")
        /\ Calls(q, "direction") # {} <=>
              Listed(du, "direction") /\ p.rotation = Null
        /\ IF Listed(du, "physics")
           THEN /\ Applied(q, "attractor")
                      = LiveMatching(attractors, o.useAttractors)
                /\ Applied(q, "forceField")
                      = LiveMatching(forceFields, o.useForceFields)
                /\ Applied(q, "sink") = LiveMatching(sinks, o.useSinks)
                /\ Applied(q, "collider") =
                      {k \in DOMAIN colliders :
                          Matches(o.useColliders, colliders[k].id)}
                /\ (RGt(o.maxSpeed, R(0)) /\ o.update # "reverse")
                      => RLe(VLen(q.velocity), o.maxSpeed)
           ELSE /\ Calls(q, "attractor") = {} /\ Calls(q, "forceField") = {}
                /\ Calls(q, "sink") = {} /\ Calls(q, "collider") = {}
                /\ o.update # "reverse" => q.velocity = p.velocity
        /\ Cardinality(Calls(q, "update")) = IF o.update = "none" THEN 0 ELSE 1
        /\ IF Listed(du, "age")
           THEN q.age = RAdd(p.age, lastDt')
           ELSE q.age = p.age /\ q.disposed = p.disposed
        /\ IF Listed(du, "position")
           THEN q.position = VAdd(p.position, VScale(q.velocity, lastDt'))
           ELSE q.position = p.position
        /\ ~Listed(du, "direction") =>
              q.actualRotation =
                  IF p.rotation = Null THEN R(0) ELSE The(p.rotation)

\* C20: Particle.update runs age, physics (attractors, force fields, sinks,
\* colliders, speed clamp), the custom hook, direction and position in this
\* order; a built-in phase runs if and only if defaultUpdates lists it
\* ('all' lists the four, 'none' none) and a phase that is not listed
\* leaves its part of the particle unchanged; the custom hook is invoked
\* exactly once per update whatever defaultUpdates is, after physics and
\* before the position integration.
C20_PhaseOrder == [][\A i \in Updated : PhaseStep(i)]_vars

\* An update with every phase and a hook: the calls in their order, the
\* speed (3, 0) - (6, 0) / 2 = 0 of the physics phase
C20_Witness ==
    \E i \in DOMAIN objP :
        /\ objP[i].options.defaultUpdates = UpdatesAll
        /\ objP[i].options.update = "mark"
        /\ objP[i].trace =
              <<Ev("age", 0), Ev("attractor", 1), Ev("forceField", 1),
                Ev("sink", 1), Ev("collider", 1), Ev("update", 0),
                Ev("direction", 0), Ev("position", 0)>>
        /\ objP[i].velocity = V(0, 0)
        /\ objP[i].position = V(0, 0)
        /\ objP[i].age = <<1, 2>>

-----------------------------------------------------------------------------
(* Further claims checked under Spec *)

\* C21: an emitter ages before it emits: the update in which the age of an
\* emitter with a finite lifespan reaches the lifespan disposes the emitter
\* and emits no particle, whatever the emission policy is; a burst emitter
\* whose delay is not less than its lifespan never emits a particle.
C21_AgeBeforeEmit ==
    /\ [][\A k \in DOMAIN emitters :
             LET i == emitters[k]
                 e == objE[i]
             IN  (/\ ~e.disposed
                  /\ e.lifespan # R(-1)
                  /\ RGe(RAdd(e.age, lastDt'), e.lifespan))
                     => /\ objE'[i].disposed
                        /\ objE'[i].age = RAdd(e.age, lastDt')
                        /\ objE'[i].totalParticlesEmitted
                              = e.totalParticlesEmitted
                        /\ PushedBy(i, objP') = PushedBy(i, objP)]_vars
    /\ [](\A i \in DOMAIN objE :
            (/\ EmissionOf(i).type = "burst"
             /\ EmissionOf(i).delay # Null
             /\ objE[i].lifespan # R(-1)
             /\ RGe(The(EmissionOf(i).delay), objE[i].lifespan))
                => /\ objE[i].totalParticlesEmitted = R(0)
                   /\ PushedBy(i, objP) = {})

\* A burst emitter of 2 particles with delay 1 and lifespan 1 has reached
\* both in one update: it is disposed and has emitted nothing
C21_Witness ==
    \E i \in DOMAIN objE :
        /\ EmissionOf(i).type = "burst"
        /\ EmissionOf(i).delay = Some(R(1))
        /\ EmissionOf(i).n = Fixed(<<3, 2>>)
        /\ objE[i].lifespan = R(1)
        /\ objE[i].disposed
        /\ RGe(objE[i].age, R(1))
        /\ objE[i].totalParticlesEmitted = R(0)
        /\ PushedBy(i, objP) = {}

\* The number of particles emitter i has appended
CountPushed(i, objs) == Cardinality(PushedBy(i, objs))

\* What one update does to emitter i and to system.particles, as to the
\* emission
EmissionStep(i) ==
    LET e == objE[i]
        e2 == objE'[i]
        f == EmissionOf(i).f
    IN  /\ RGe(e2.totalParticlesEmitted, e.totalParticlesEmitted)
        /\ PushedBy(i, objP) \subseteq PushedBy(i, objP')
        /\ (EmissionOf(i).type = "custom" /\ ~e.disposed) =>
              /\ ~LifespanReached(e2) =>
                    /\ ~e2.disposed
                    /\ CountPushed(i, objP') - CountPushed(i, objP) =
                          IF RGt(f, R(0)) THEN RCeil(f) ELSE 0
              /\ LifespanReached(e2) =>
                    CountPushed(i, objP') = CountPushed(i, objP)

\* system.particles after the step: the particles it held that are not
\* disposed, in their order, then the new ones in the order of their
\* creation
AppendOnly ==
    /\ Len(objP') >= Len(objP)
    /\ particles' = FilterLive(particles, objP')
                        \o [k \in 1..(Len(objP') - Len(objP)) |-> Len(objP) + k]

-----------------------------------------------------------------------------
(* Further claims checked under SpecCalls *)

\* A handleCollision call has returned from a contact with a normal and an
\* incoming velocity
IncomingContact ==
    /\ Returned("handleCollision")
    /\ probe.normal # Null
    /\ RLe(VDot(ProbeP.velocity, The(probe.normal)), R(0))

\* The velocity after the normal impulse and the friction impulse
AfterFriction ==
    LET n == The(probe.normal)
        v == ProbeP.velocity
    IN  VAdd(VAdd(v, VScale(n, RMul(RNeg(RAdd(R(1), ProbeEl.restitution)),
                                    VDot(v, n)))),
             VScale(Tangential(v, n), RNeg(ProbeEl.friction)))

\* C22: on a contact with incoming velocity handleCollision applies the
\* normal impulse scaled by (1 + restitution), then the friction impulse
\* against the tangential component, then, if randomness > 0, a rotation:
\* the final velocity is the rotation of the velocity after impulse and
\* friction, and has its magnitude.
C22_ResponseOrder ==
    IncomingContact =>
        /\ ProbeQ.velocity =
              IF RGt(ProbeEl.randomness, R(0))
              THEN VRot(AfterFriction, probe.angle)
              ELSE AfterFriction
        /\ VDot(ProbeQ.velocity, ProbeQ.velocity)
              = VDot(AfterFriction, AfterFriction)

\* What the code does: the rotation comes before the friction impulse, which
\* is added unrotated; the claimed order is what happens when nothing is
\* rotated or friction is 0
C22_Actual ==
    IncomingContact =>
        LET n == The(probe.normal)
            v == ProbeP.velocity
            bounced == VAdd(v, VScale(n,
                          RMul(RNeg(RAdd(R(1), ProbeEl.restitution)),
                               VDot(v, n))))
            rotated == IF RGt(ProbeEl.randomness, R(0))
                       THEN VRot(bounced, probe.angle) ELSE bounced
        IN  /\ ProbeQ.velocity =
                  VAdd(rotated, VScale(Tangential(v, n), RNeg(ProbeEl.friction)))
            /\ (ProbeEl.friction = R(0) \/ probe.angle = 0
                \/ ProbeEl.randomness = R(0))
                  => ProbeQ.velocity = VRot(AfterFriction, probe.angle)

\* A handleCollision call, the first or the second at a contact, has
\* returned
Collided ==
    /\ probe.op \in {"handleCollision", "handleCollisionAgain"}
    /\ probe.q # Null
    /\ probe.normal # Null

\* A velocity with a positive component along the normal is left unchanged
AwayUnchanged ==
    (Collided /\ RGt(VDot(ProbeP.velocity, The(probe.normal)), R(0)))
        => ProbeQ.velocity = ProbeP.velocity

\* C23 as claimed: a velocity with a positive component along the contact
\* normal is left unchanged, and so, with randomness 0 and any restitution
\* >= 0 and friction, a second handleCollision call at the same contact
\* changes nothing.
C23_Original ==
    /\ AwayUnchanged
    /\ (Collided /\ probe.op = "handleCollisionAgain"
        /\ ProbeEl.randomness = R(0))
            => ProbeQ.velocity = ProbeP.velocity

\* C23 amended: a velocity with a positive component along the contact
\* normal is left unchanged; with randomness 0 the first call leaves a
\* normal component >= 0, and a second call at the same contact changes
\* nothing if that component is > 0 (restitution > 0 and a velocity that
\* came in against the normal); if it is 0 (restitution 0, or a velocity
\* along the surface) the second call takes the friction off the
\* tangential velocity once more.
C23_NoBounceLock ==
    /\ AwayUnchanged
    /\ (Collided /\ probe.op = "handleCollisionAgain"
        /\ ProbeEl.randomness = R(0))
            => LET n == The(probe.normal)
                   v == ProbeP.velocity
               IN  /\ RGe(VDot(v, n), R(0))
                   /\ VDot(ProbeQ.velocity, n) = VDot(v, n)
                   /\ ProbeQ.velocity =
                         IF RGt(VDot(v, n), R(0)) THEN v
                         ELSE VAdd(v, VScale(Tangential(v, n),
                                             RNeg(ProbeEl.friction)))

\* Velocity (3, -4) has met a surface of normal (0, 1), restitution 0.5 and
\* friction 0.5, and left as (1.5, 2); the second call has changed nothing
C23_Witness ==
    /\ probe.op = "handleCollisionAgain"
    /\ probe.normal = Some(V(0, 1))
    /\ ProbeEl.randomness = R(0)
    /\ ProbeEl.restitution = <<1, 2>>
    /\ ProbeEl.friction = <<1, 2>>
    /\ ProbeP.velocity = Vec(<<3, 2>>, R(2))
    /\ ProbeQ.velocity = Vec(<<3, 2>>, R(2))

-----------------------------------------------------------------------------
(* Further claims checked under SpecPhysics *)

\* C24: the age of a particle never decreases: whatever its defaultUpdates
\* and use settings are, whatever sinks of strength >= 0 of either mode
\* there are, and whatever dt >= 0 the updates are called with, its age
\* after an update is >= its age before.
C24_AgeMonotonic ==
    [][\A i \in DOMAIN objP : RGe(objP'[i].age, objP[i].age)]_vars

\* What the code does: the age does not decrease while the age phase is
\* listed (the particle is then disposed when its age reaches its
\* lifespan); without the age phase an instant sink sets an age that a fade
\* sink has taken beyond the lifespan back to the lifespan
C24_Actual ==
    [][\A i \in DOMAIN objP :
          \/ RGe(objP'[i].age, objP[i].age)
          \/ /\ "age" \notin
                    prepareDefaultUpdates(objP[i].options.defaultUpdates)
             /\ InRangeOfInstantSink(objP[i])
             /\ RGt(objP[i].age, objP[i].lifespan)
             /\ RGe(objP'[i].age, objP[i].lifespan)]_vars

-----------------------------------------------------------------------------
(* Further claims checked under SpecScenes *)

\* The step has appended a sample to the trail of particle i: the samples
\* it has kept have aged by dt > 0
Appended(i) ==
    /\ objP'[i].trailSegments # << >>
    /\ objP'[i].trailSegments[Len(objP'[i].trailSegments)].age = R(0)

\* The position of the most recent sample of trail ts
LastSample(ts) == ts[Len(ts)].position

\* C25: an update appends a trail sample only if 'position' is enabled and
\* the particle is at least 5 units away from the most recent stored
\* sample, so a particle at rest gets no sample after the one of its
\* construction.
C25_TrailThreshold ==
    [][\A i \in Updated :
          (HasTrail(objP[i]) /\ Appended(i)) =>
              /\ "position" \in
                     prepareDefaultUpdates(objP[i].options.defaultUpdates)
              /\ objP[i].trailSegments # << >>
              /\ RGe(Distance(LastSample(objP[i].trailSegments),
                              objP'[i].position),
                     R(MINIMUM_TRAIL_MOVEMENT_THRESHOLD))]_vars

\* What the code does: the threshold is applied against the most recent
\* sample left after the decay; when every sample has decayed a sample is
\* appended wherever the particle is
C25_Actual ==
    [][\A i \in Updated :
          HasTrail(objP[i]) =>
             LET ts == objP[i].trailSegments
                 Young(segment) ==
                     RLt(RAdd(segment.age, lastDt'), DecayTimeOf(objP[i]))
                 kept == SelectSeq(ts, Young)
             IN  Appended(i) <=>
                    /\ "position" \in
                          prepareDefaultUpdates(objP[i].options.defaultUpdates)
                    /\ \/ kept = << >>
                       \/ RGe(Distance(LastSample(kept), objP'[i].position),
                              R(MINIMUM_TRAIL_MOVEMENT_THRESHOLD))]_vars

-----------------------------------------------------------------------------
(* SpecDraw: a host that calls ParticleSystem.update and                 *)
(* ParticleSystem.draw, and the update of single particles               *)

MaxDraws == 2

\* Mutant: drawing ages the particle
ParticleDraw_Ages(p) == [p EXCEPT !.age = RAdd(@, <<1, 60>>)]

\* The particle as Particle.draw and drawTrail leave it, with no preDraw
\* and postDraw hook: they read position, age, lifespan, size, style,
\* actualRotation and trailSegments and assign to the context only
ParticleDraw(p) == p

\* particles.forEach(particle => if (!particle.disposed) particle.draw())
DrawParticles(objs, ids) ==
    [i \in DOMAIN objs |->
        IF InSeq(i, ids) /\ ~objs[i].disposed THEN ParticleDraw(objs[i])
        ELSE objs[i]]

\* ParticleSystem.draw(context); probe records the particles whose draw was
\* called, in the order of the calls, the number of updates before the call
\* and the number of draw calls
Draw ==
    /\ probe.angle < MaxDraws
    /\ objP' = DrawParticles(objP, particles)
    /\ probe' = [probe EXCEPT !.op = "draw",
                              !.el = Some(FilterLive(particles, objP)),
                              !.dt = R(elapsed),
                              !.angle = @ + 1]
    /\ UNCHANGED <<particles, emitters, attractors, forceFields, colliders,
                   sinks, objE, elapsed, lastDt>>

InitDraw ==
    /\ objP \in HostSceneParticles \cup
          {<<NewParticle(V(0, 0), V(12, 0), Null, R(1),
                         Some([style |-> "dot",
                               trail |-> Some([length |-> R(2),
                                               decayTime |-> Null])]),
                         DEFAULT_PARTICLE_OPTIONS)>>}
    /\ particles = [i \in DOMAIN objP |-> i]
    /\ objE \in HostSceneEmitters
    /\ emitters = [i \in DOMAIN objE |-> i]
    /\ HostSceneElements
    /\ elapsed = MaxUpdates - MaxPhysicsUpdates
    /\ lastDt = R(0)
    /\ probe = NoProbe

NextDraw ==
    \/ \E dt \in DTs, rnd \in Oracles : Update(dt, rnd)
    \/ \E k \in DOMAIN particles, dt \in DTs, rnd \in Oracles :
          CallParticleUpdate(k, dt, rnd.angle)
    \/ Draw

SpecDraw == InitDraw /\ [][NextDraw]_vars

-----------------------------------------------------------------------------
(* Claims checked under SpecDraw *)

\* The step is a call of ParticleSystem.draw
DrawStep == probe'.angle # probe.angle

\* The position of id in system.particles
PlaceOf(id) == CHOOSE k \in DOMAIN particles : particles[k] = id

\* C26: ParticleSystem.draw, with no preDraw and postDraw hooks, leaves the
\* six collections and every field of every particle and emitter
\* unchanged, calls draw for the particles of system.particles that are
\* not disposed, and only for them, in the order of the collection; two
\* draw calls with no update in between find the same particles.
C26_DrawIsPure ==
    [][DrawStep =>
          /\ UNCHANGED <<particles, emitters, attractors, forceFields,
                         colliders, sinks, objP, objE>>
          /\ LET drawn == The(probe'.el)
             IN  /\ \A j \in DOMAIN drawn :
                        InSeq(drawn[j], particles) /\ ~objP[drawn[j]].disposed
                 /\ \A k \in DOMAIN particles :
                        ~objP[particles[k]].disposed => InSeq(particles[k], drawn)
                 /\ \A j, k \in DOMAIN drawn :
                        j < k => PlaceOf(drawn[j]) < PlaceOf(drawn[k])
          /\ (probe.op = "draw" /\ probe.dt = R(elapsed))
                => probe'.el = probe.el]_vars

\* draw has been called twice on a system of two particles, the first
\* disposed by the host's call of its update and not drawn
C26_Witness ==
    /\ probe.op = "draw"
    /\ probe.angle = 2
    /\ probe.dt = R(elapsed)
    /\ Len(particles) = 2
    /\ objP[particles[1]].disposed
    /\ ~objP[particles[2]].disposed
    /\ ProbeEl = <<particles[2]>>

-----------------------------------------------------------------------------
(* SpecStyles: a host that changes the style of an emitted particle.      *)
(* createParticle hands options.particles.style itself to the Particle    *)
(* constructor, which copies it with Object.assign({}, DEFAULT_PARTICLE_  *)
(* STYLE, style): the style object of a particle is its own, the objects  *)
(* in its fields (trail, fade, glow) are those of the template, shared    *)
(* with every particle of the same emitter (origin)                       *)

\* The host makes one call
HostCalls(op, i) ==
    /\ probe.op = "none"
    /\ probe' = [probe EXCEPT !.op = op, !.angle = i]
    /\ UNCHANGED <<particles, emitters, attractors, forceFields, colliders,
                   sinks, elapsed, lastDt>>

\* particle.style.style = 'line' on particle i
SetStyleKind(i) ==
    /\ i \in DOMAIN objP
    /\ objP[i].style # Null
    /\ objP' = [objP EXCEPT ![i].style = Some([The(@) EXCEPT !.style = "line"])]
    /\ objE' = objE
    /\ HostCalls("style.style", i)

\* style with length as the length of its trail
WithTrailLength(style, length) ==
    Some([The(style) EXCEPT !.trail = Some([The(@) EXCEPT !.length = length])])

\* particle.style.trail.length = 1 on particle i of an emitter: the trail
\* object is the one of the template and of the other particles of the
\* emitter
SetTrailLength(i) ==
    /\ i \in DOMAIN objP
    /\ objP[i].origin # 0
    /\ HasTrail(objP[i])
    /\ objP' = [j \in DOMAIN objP |->
                  IF objP[j].origin = objP[i].origin /\ HasTrail(objP[j])
                  THEN [objP[j] EXCEPT !.style = WithTrailLength(@, R(1))]
                  ELSE objP[j]]
    /\ objE' = [objE EXCEPT ![objP[i].origin].options.particles.style =
                    WithTrailLength(@, R(1))]
    /\ HostCalls("style.trail.length", i)

InitStyles ==
    /\ \E em \in {BurstEmission(Fixed(R(2)), Null), RateEmission(Fixed(R(3)))},
          speed \in {R(0), R(12)} :
          objE = <<NewEmitter(V(4, 0), V(0, 0), R(-1),
                      [DEFAULT_PARTICLE_TEMPLATE EXCEPT
                          !.speed = Fixed(speed),
                          !.style = Some([style |-> "dot",
                                          trail |-> Some([length |-> R(2),
                                                          decayTime |-> Null])])],
                      em)>>
    /\ emitters = <<1>>
    /\ objP = << >>
    /\ particles = << >>
    /\ NoElements
    /\ elapsed = MaxUpdates - MaxPhysicsUpdates
    /\ lastDt = R(0)
    /\ probe = NoProbe

NextStyles ==
    \/ \E dt \in DTs, rnd \in Oracles : Update(dt, rnd)
    \/ \E i \in DOMAIN objP : SetStyleKind(i)
    \/ \E i \in DOMAIN objP : SetTrailLength(i)

SpecStyles == InitStyles /\ [][NextStyles]_vars

-----------------------------------------------------------------------------
(* Claims checked under SpecStyles *)

\* The host changes the style of a particle in this step
StyleStep == probe.op = "none" /\ probe'.op # "none"

TemplateStyle(e) == e.options.particles.style

\* C27: a change of the style of one particle, of a field of the style
\* (style.style) or of a field of an object in it (style.trail.length), is
\* seen neither in the style of another particle of the same emitter nor
\* in the template of the emitter, from which later particles are made.
C27_NoAliasing ==
    [][StyleStep =>
          /\ \A j \in DOMAIN objP :
                j # probe'.angle => objP'[j].style = objP[j].style
          /\ \A e \in DOMAIN objE :
                TemplateStyle(objE'[e]) = TemplateStyle(objE[e])]_vars

\* What the code does: the copy is one level deep.  A change of style.style
\* stays with the particle; a change of style.trail.length is a change of
\* the trail of the template and of every particle of the emitter, and the
\* particles emitted later have it too
C27_Actual ==
    /\ [][StyleStep =>
            /\ probe'.op = "style.style" =>
                  /\ \A j \in DOMAIN objP :
                        j # probe'.angle => objP'[j].style = objP[j].style
                  /\ objE' = objE
            /\ probe'.op = "style.trail.length" =>
                  \A j \in DOMAIN objP :
                      objP[j].origin = objP[probe'.angle].origin
                          => TrailOf(objP'[j]).length = R(1)]_vars
    /\ [](probe.op = "style.trail.length" =>
            \A j \in DOMAIN objP : TrailOf(objP[j]).length = R(1))

-----------------------------------------------------------------------------
(* SpecThrow: ParticleSystem.update on particles whose custom update hook *)
(* may throw (options.update = "throw").  No statement of the engine is   *)
(* in a try block: the exception ends Particle.update, the forEach over   *)
(* system.particles and ParticleSystem.update at once                     *)

\* The places in ids of the particles whose update is called and throws
Throwing(objs, ids) ==
    {j \in DOMAIN ids : /\ ~objs[ids[j]].disposed
                        /\ objs[ids[j]].options.update = "throw"}

FirstThrowing(objs, ids) ==
    CHOOSE j \in Throwing(objs, ids) : \A l \in Throwing(objs, ids) : j <= l

\* The particle as Particle.update leaves it when the hook throws: the age
\* and physics phases are done, the hook was entered
HookThrows(p0, sys, dt, angle) ==
    CustomUpdate(
        PhysicsPhase(
            AgePhase([p0 EXCEPT !.trace = << >>],
                     prepareDefaultUpdates(p0.options.defaultUpdates), dt),
            prepareDefaultUpdates(p0.options.defaultUpdates), sys, dt, angle),
        dt)

\* Mutant: the exception is swallowed and the forEach goes on
UpdateParticlesThrown_Swallowed(objs, ids, k, sys, dt, angle) ==
    [i \in DOMAIN objs |->
        IF i = ids[k] THEN HookThrows(objs[i], sys, dt, angle)
        ELSE IF InSeq(i, ids) /\ ~objs[i].disposed
        THEN ParticleUpdate(objs[i], sys, dt, angle)
        ELSE objs[i]]

\* The objects as the forEach over system.particles leaves them when the
\* update of the k-th particle throws
UpdateParticlesThrown(objs, ids, k, sys, dt, angle) ==
    [i \in DOMAIN objs |->
        IF i = ids[k] THEN HookThrows(objs[i], sys, dt, angle)
        ELSE IF (\E j \in 1..(k - 1) : ids[j] = i) /\ ~objs[i].disposed
        THEN ParticleUpdate(objs[i], sys, dt, angle)
        ELSE objs[i]]

\* ParticleSystem.update(dt) ends with the exception of a hook; probe
\* counts the exceptions the host has caught
UpdateThrows(dt, rnd) ==
    /\ elapsed < MaxUpdates
    /\ Throwing(objP, particles) # {}
    /\ objP' = UpdateParticlesThrown(objP, particles,
                   FirstThrowing(objP, particles),
                   Sys(attractors, forceFields, sinks, colliders),
                   dt, rnd.angle)
    /\ probe' = [probe EXCEPT !.op = "throw", !.angle = @ + 1]
    /\ elapsed' = elapsed + 1
    /\ lastDt' = dt
    /\ UNCHANGED <<particles, emitters, attractors, forceFields, colliders,
                   sinks, objE>>

\* ParticleSystem.update(dt) returns
UpdateReturns(dt, rnd) ==
    /\ Throwing(objP, particles) = {}
    /\ Update(dt, rnd)

InitThrow ==
    /\ \E h1 \in {"none", "throw"}, h2 \in {"none", "throw"},
          h3 \in {"none", "throw"}, L \in {<<1, 3>>, R(1)} :
          objP = <<NewParticle(V(0, 0), V(1, 0), Null, L,
                               Some(DEFAULT_PARTICLE_STYLE),
                               [DEFAULT_PARTICLE_OPTIONS EXCEPT !.update = h1]),
                   NewParticle(V(0, 0), V(2, 0), Null, L,
                               Some(DEFAULT_PARTICLE_STYLE),
                               [DEFAULT_PARTICLE_OPTIONS EXCEPT !.update = h2]),
                   NewParticle(V(0, 0), V(3, 0), Null, R(1),
                               Some(DEFAULT_PARTICLE_STYLE),
                               [DEFAULT_PARTICLE_OPTIONS EXCEPT !.update = h3])>>
    /\ particles = <<1, 2, 3>>
    /\ objE = <<NewEmitter(V(4, 0), V(0, 0), R(-1), DEFAULT_PARTICLE_TEMPLATE,
                           RateEmission(Fixed(R(3))))>>
    /\ emitters = <<1>>
    /\ attractors = << >>
    /\ forceFields = <<NewForceField(V(1, 0), <<1, 3>>, Null, R(0), Null)>>
    /\ sinks = << >>
    /\ colliders = << >>
    /\ elapsed = MaxUpdates - MaxPhysicsUpdates
    /\ lastDt = R(0)
    /\ probe = NoProbe

NextThrow ==
    \/ \E dt \in DTs, rnd \in Oracles : UpdateReturns(dt, rnd)
    \/ \E dt \in DTs, rnd \in Oracles : UpdateThrows(dt, rnd)

SpecThrow == InitThrow /\ [][NextThrow]_vars

-----------------------------------------------------------------------------
(* Claims checked under SpecThrow *)

\* C28: when the custom update hook of a particle throws during
\* ParticleSystem.update the exception reaches the caller: the particles
\* before it in system.particles are updated and stay so, the particle has
\* its age and physics phases done and no direction and position phase, the
\* particles after it are not updated, system.particles is not filtered,
\* and no emitter, attractor, force field or sink is updated or filtered.
C28_HookThrowPropagates ==
    [][Throwing(objP, particles) # {} =>
          LET k == FirstThrowing(objP, particles)
          IN  /\ probe'.op = "throw" /\ probe'.angle = probe.angle + 1
              /\ particles' = particles
              /\ UNCHANGED <<emitters, objE, attractors, forceFields, sinks,
                             colliders>>
              /\ Len(objP') = Len(objP)
              /\ \A j \in DOMAIN particles :
                    LET p == objP[particles[j]]
                        q == objP'[particles[j]]
                    IN  /\ (j < k /\ ~p.disposed) =>
                              /\ q.age = RAdd(p.age, lastDt')
                              /\ q.position =
                                    VAdd(p.position, VScale(q.velocity, lastDt'))
                        /\ j = k =>
                              /\ q.age = RAdd(p.age, lastDt')
                              /\ HookInvoked(q)
                              /\ Calls(q, "position") = {}
                              /\ q.position = p.position
                        /\ j > k => q = p]_vars

\* The hook of the second of three particles has thrown in an update of
\* 1/3 s: the first particle has moved, is disposed and is still in
\* system.particles, the third has not aged, the emitter has not emitted
C28_Witness ==
    /\ probe.op = "throw"
    /\ probe.angle = 1
    /\ particles = <<1, 2, 3>>
    /\ objP[1].disposed /\ objP[1].age = <<1, 3>>
    /\ objP[1].position # V(0, 0)
    /\ objP[2].age = <<1, 3>> /\ objP[2].position = V(0, 0)
    /\ objP[3].age = R(0) /\ objP[3].options.update = "none"
    /\ objE[1].age = R(0)
    /\ forceFields[1].age = R(0)

-----------------------------------------------------------------------------
(* Eventual completion: the host keeps calling update with one dt *)

MaxCompletionUpdates == 8

\* Emitters with a finite lifespan, and burst emitters with a fixed n > 0
CompletionEmitters ==
    {NewEmitter(V(0, 0), V(0, 0), R(-1), DEFAULT_PARTICLE_TEMPLATE,
                BurstEmission(Fixed(R(2)), Null)),
     NewEmitter(V(0, 0), V(0, 0), R(-1), DEFAULT_PARTICLE_TEMPLATE,
                BurstEmission(Fixed(R(2)), Some(R(1)))),
     NewEmitter(V(0, 0), V(0, 0), R(1), DEFAULT_PARTICLE_TEMPLATE,
                BurstEmission(Fixed(R(2)), Some(R(1)))),
     NewEmitter(V(0, 0), V(0, 0), R(1), DEFAULT_PARTICLE_TEMPLATE,
                RateEmission(Fixed(R(3)))),
     NewEmitter(V(0, 0), V(0, 0), <<3, 2>>, DEFAULT_PARTICLE_TEMPLATE,
                RateEmission(Fixed(R(3)))),
     NewEmitter(V(0, 0), V(0, 0), R(1), DEFAULT_PARTICLE_TEMPLATE,
                CustomEmission(<<1, 2>>))}

CompletionSinks ==
    {<< >>,
     <<NewSink(V(0, 0), R(2), R(1), 1, "fade", R(2), 1)>>,
     <<NewSink(V(0, 0), R(2), R(1), 1, "instant", R(2), 1)>>,
     <<NewSink(V(0, 0), R(0), R(1), 1, "fade", R(2), 1)>>}

InitCompletion ==
    /\ \E e \in CompletionEmitters : objE = <<e>>
    /\ emitters = <<1>>
    /\ objP = << >>
    /\ particles = << >>
    /\ attractors = << >>
    /\ forceFields = << >>
    /\ colliders = << >>
    /\ sinks \in CompletionSinks
    /\ elapsed = 0
    /\ lastDt = R(0)
    /\ probe = NoProbe

\* update(dt) with the dt of the first call; the host never stops calling
\* (elapsed counts the calls up to MaxCompletionUpdates and stays there)
CompletionUpdate ==
    \E dt \in DTs :
        /\ elapsed = 0 \/ dt = lastDt
        /\ ParticleSystemPass(dt, [u |-> 0, angle |-> 0], MaxParticles)
        /\ elapsed' = IF elapsed < MaxCompletionUpdates THEN elapsed + 1
                                                        ELSE elapsed

\* The host has made another call
Called ==
    /\ elapsed < MaxCompletionUpdates
    /\ elapsed' = elapsed + 1

\* (Fairness is stated for the count of calls: the host makes at least
\* MaxCompletionUpdates calls, within which every system of
\* InitCompletion that completes at all has completed)
SpecCompletion ==
    InitCompletion /\ [][CompletionUpdate]_vars /\ WF_elapsed(Called)

Completed ==
    /\ ParticleSystemDisposed
    /\ particles = << >>
    /\ emitters = << >>

\* C30: when every emitter has a finite lifespan or is a burst emitter with
\* a fixed n > 0, the emitted particles have the default options and a
\* finite fixed lifespan, and the host adds nothing, updates with a
\* constant dt > 0 eventually leave the system disposed with no particles
\* and no emitters, and it stays so.
C30_EventualCompletion == <>[]Completed

\* What the code does: a fade sink of range 0 at the position of a particle
\* makes the particle's age NaN (0 / 0 in the range falloff), and
\* age >= lifespan is false from then on; the system completes when no
\* particle's age becomes NaN
C30_Actual == <>[](Completed \/ \E k \in DOMAIN particles :
                                   IsNaN(objP[particles[k]].age))

\* The particle that is never disposed
C30_Immortal ==
    /\ elapsed = MaxCompletionUpdates
    /\ emitters = << >>
    /\ sinks = << >>
    /\ \E k \in DOMAIN particles :
          /\ IsNaN(objP[particles[k]].age)
          /\ ~objP[particles[k]].disposed

\* A system that completed
C30_Witness ==
    /\ Completed
    /\ Len(objP) = 4
    /\ sinks = << >>
    /\ elapsed = MaxCompletionUpdates

====
